---- MODULE Spec2Model ----
(***************************************************************************)
(* A model of the bentopdf PyMuPDF WebAssembly binding:                    *)
(*   - the facade PyMuPDF (src/src/pymupdf.ts): lazy initialisation of the *)
(*     embedded interpreter, temporary entries of the interpreter's        *)
(*     virtual filesystem, compressPdf's derived numbers;                  *)
(*   - the document handle PyMuPDFDocument (src/src/document.ts): close,   *)
(*     page operations, save's permission bits, the optional-content       *)
(*     groups ("layers"): getLayerConfig, addOCGWithParent,                *)
(*     setLayerVisibility, deleteOCG.                                      *)
(* The native PDF engine and the interpreter are the environment: a call   *)
(* into them either returns or raises.                                     *)
(***************************************************************************)
EXTENDS Integers, Sequences, FiniteSets, TLC

(***************************************************************************)
(* Bounds.                                                                 *)
(***************************************************************************)
NumCallers == 3
MaxCalls == 2

MaxPages == 3
MaxIndices == 2
MaxCloseCalls == 2
NumProcs == 2
MaxFsCalls == 2
MaxImages == 2
MaxSize == 80
MaxGrowth == 11

Callers == 1..NumCallers
Procs == 1..NumProcs

VARIABLES
    \* ---- facade: PyMuPDF.getPyodide / initPyodide ----
    pyodide,          \* this.pyodide: 0 is null, k > 0 the instance made by the k-th initPyodide
    pyodidePromise,   \* this.pyodidePromise: 0 is null, k > 0 the promise of the k-th initPyodide
    initPromises,     \* the promises returned by initPyodide, in the order started
    callPc,           \* per caller: where its getPyodide call stands
    callPromise,      \* per caller: the initPyodide promise its call waits on (0: none)
    callResult,       \* per caller: the instance its call resolved with (0: none)
    callsMade,        \* per caller: number of facade calls issued
    joinedSettled,    \* per caller: the state the awaited promise had when the call began
    delivered,        \* every instance some call has resolved with
    \* ---- document handle: PyMuPDFDocument ----
    closed,           \* this.closed
    docPages,         \* the engine-side document ${docVar}: its pages, in order
    engineOpen,       \* the engine-side document has not been closed
    inputFile,        \* the entry this.inputPath exists in the virtual filesystem
    closeCalls,       \* number of close() calls made on the handle
    closeAttempts,    \* number of times close() ran `${docVar}.close()`
    unlinkAttempts,   \* number of times close() ran FS.unlink(this.inputPath)
    gen,              \* the generator object returned by the last pages() call
    lastOp,           \* the last call on the handle and what came of it
    \* ---- facade: temporary entries of the interpreter's virtual filesystem ----
    docCounter,       \* this.docCounter
    fs,               \* the entries of pyodide.FS: <<name, number>> pairs
    calls,            \* per process: the facade call it has in flight
    handles,          \* the open document handles: [id, call]
    used,             \* every [call, name] a call has written or deleted
    callSeq,          \* number of calls issued so far
    \* ---- document handle: save() ----
    saveCall,         \* the last save(options) call: its options and the tobytes() it ran
    \* ---- facade: compressPdf() ----
    compressCall,     \* the last compressPdf call: its input, the engine's answer, its result
    \* ---- document handle: optional-content groups ----
    ocProps,          \* the engine-side document: where /OCProperties and its /D live, their arrays
    layerDoc,         \* the engine-side document: its groups, their names, layer_ui_configs()
    layerCall,        \* the getLayerConfig call in progress or last made
    ocCall,           \* the last addOCGWithParent / setLayerVisibility / deleteOCG call
    \* ---- page handles: PyMuPDFPage ----
    pageHandles,      \* the page numbers of the page handles the document has given out
    \* ---- facade: operations that open handles themselves ----
    job,              \* the merge, split, renderPage or extractText call in progress or last made
    \* ---- facade: imagesToPdf and the global it builds the PDF in ----
    multiImgPdf,      \* the interpreter's global _multi_img_pdf
    imgCalls,         \* per process: the imagesToPdf call it has in flight
    \* ---- facade: pdfToDocx and its colour conversion ----
    docxCall,         \* the pdfToDocx call in progress or last made
    \* ---- generated code: string literals ----
    literal           \* the last string a caller passed to be put into generated code, and the code made of it

initVars == <<pyodide, pyodidePromise, initPromises, callPc, callPromise,
              callResult, callsMade, joinedSettled, delivered>>

docVars == <<closed, docPages, engineOpen, inputFile, closeCalls, closeAttempts,
             unlinkAttempts, gen, lastOp>>

fsVars == <<docCounter, fs, calls, handles, used, callSeq>>

saveVars == <<saveCall>>

compressVars == <<compressCall>>

layerVars == <<ocProps, layerDoc, layerCall, ocCall>>

pageVars == <<pageHandles>>

jobVars == <<job>>

imgVars == <<multiImgPdf, imgCalls>>

docxVars == <<docxCall>>

litVars == <<literal>>

vars == <<initVars, docVars, fsVars, saveVars, compressVars, layerVars, pageVars, jobVars, imgVars, docxVars, litVars>>

\* What the steps of one component leave alone.
frameInit == <<docVars, fsVars, saveVars, compressVars, layerVars, pageVars, jobVars, imgVars, docxVars, litVars>>
frameDoc == <<initVars, fsVars, saveVars, compressVars, layerVars, pageVars, jobVars, imgVars, docxVars, litVars>>
frameFs == <<initVars, docVars, saveVars, compressVars, layerVars, pageVars, jobVars, imgVars, docxVars, litVars>>
frameSave == <<initVars, fsVars, compressVars, layerVars, pageVars, jobVars, imgVars, docxVars, litVars>>
frameCompress == <<initVars, docVars, fsVars, saveVars, layerVars, pageVars, jobVars, imgVars, docxVars, litVars>>
frameLayers == <<initVars, docVars, fsVars, saveVars, compressVars, pageVars, jobVars, imgVars, docxVars, litVars>>
framePages == <<initVars, fsVars, saveVars, compressVars, layerVars, jobVars, imgVars, docxVars, litVars>>

frameJob == <<initVars, docVars, fsVars, saveVars, compressVars, layerVars, pageVars, imgVars, docxVars, litVars>>

\* no facade operation that opens handles has been called
NoJob ==
    [kind |-> "none", pc |-> "idle", n |-> 0, i |-> 0, ranges |-> << >>, pageIndex |-> 0,
     source |-> << >>, pageCount |-> 0, counted |-> 0, next |-> 0, opened |-> {},
     open |-> {}, files |-> {}, results |-> << >>]

JobIdle == job = NoJob

frameImages == <<initVars, docVars, fsVars, saveVars, compressVars, layerVars, pageVars,
                 jobVars, docxVars, litVars>>

\* the global is not bound; a process has no imagesToPdf call in flight
NoMultiPdf == [bound |-> FALSE, open |-> FALSE, pages |-> << >>]

NoImgCall == [pc |-> "idle", images |-> << >>, i |-> 0, result |-> << >>]

ImagesIdle == multiImgPdf = NoMultiPdf /\ imgCalls = [p \in Procs |-> NoImgCall]

frameDocx == <<initVars, docVars, fsVars, saveVars, compressVars, layerVars, pageVars,
               jobVars, imgVars, litVars>>

\* no pdfToDocx call has been made
NoStep == [settled |-> "none", data |-> << >>, loads |-> TRUE, throws |-> FALSE,
           exitCode |-> 0, outputWritten |-> FALSE]

NoDocxCall == [pc |-> "idle", pdf |-> << >>, step |-> NoStep, converted |-> << >>,
               ran |-> FALSE]

DocxIdle == docxCall = NoDocxCall

frameLiteral == <<initVars, docVars, fsVars, saveVars, compressVars, layerVars, pageVars,
                  jobVars, imgVars, docxVars>>

\* no string has been interpolated
NoLiteral == [op |-> "none", text |-> << >>, emitted |-> << >>,
              read |-> [ok |-> FALSE, value |-> << >>, end |-> 0]]

LiteralIdle == literal = NoLiteral

\* no page handle has been given out
PagesIdle == pageHandles = {}

(***************************************************************************)
(* Facade initialisation.  Every public facade method begins with          *)
(* `await this.getPyodide()`; a facade call is followed here up to the     *)
(* settlement of that await.                                               *)
(***************************************************************************)
InitFacade ==
    /\ pyodide = 0
    /\ pyodidePromise = 0
    /\ initPromises = << >>
    /\ callPc = [c \in Callers |-> "idle"]
    /\ callPromise = [c \in Callers |-> 0]
    /\ callResult = [c \in Callers |-> 0]
    /\ callsMade = [c \in Callers |-> 0]
    /\ joinedSettled = [c \in Callers |-> "none"]
    /\ delivered = {}

\* initPyodide() is entered: a new pending promise, the next instance.
initPyodide == Append(initPromises, "pending")

\* A getPyodide that tests only this.pyodide and not this.pyodidePromise.
GetPyodideCallNoPromiseCheck(c) ==
    /\ callPc[c] = "idle"
    /\ callsMade[c] < MaxCalls
    /\ callsMade' = [callsMade EXCEPT ![c] = @ + 1]
    /\ IF pyodide # 0
       THEN /\ callPc' = [callPc EXCEPT ![c] = "resolved"]
            /\ callResult' = [callResult EXCEPT ![c] = pyodide]
            /\ delivered' = delivered \cup {pyodide}
            /\ joinedSettled' = [joinedSettled EXCEPT ![c] = "none"]
            /\ UNCHANGED <<pyodidePromise, initPromises, callPromise>>
       ELSE /\ initPromises' = initPyodide
            /\ pyodidePromise' = Len(initPromises')
            /\ callPc' = [callPc EXCEPT ![c] = "awaitInit"]
            /\ callPromise' = [callPromise EXCEPT ![c] = Len(initPromises')]
            /\ joinedSettled' = [joinedSettled EXCEPT ![c] = "pending"]
            /\ UNCHANGED <<callResult, delivered>>
    /\ UNCHANGED pyodide

\* getPyodide up to its first suspension (pymupdf.ts 150-154).
GetPyodideCall(c) ==
    /\ callPc[c] = "idle"
    /\ callsMade[c] < MaxCalls
    /\ callsMade' = [callsMade EXCEPT ![c] = @ + 1]
    /\ IF pyodide # 0
       THEN \* if (this.pyodide) return this.pyodide;
            /\ callPc' = [callPc EXCEPT ![c] = "resolved"]
            /\ callResult' = [callResult EXCEPT ![c] = pyodide]
            /\ delivered' = delivered \cup {pyodide}
            /\ joinedSettled' = [joinedSettled EXCEPT ![c] = "none"]
            /\ UNCHANGED <<pyodidePromise, initPromises, callPromise>>
       ELSE IF pyodidePromise # 0
       THEN \* if (this.pyodidePromise) return this.pyodidePromise;
            /\ callPc' = [callPc EXCEPT ![c] = "awaitPromise"]
            /\ callPromise' = [callPromise EXCEPT ![c] = pyodidePromise]
            /\ joinedSettled' = [joinedSettled EXCEPT ![c] = initPromises[pyodidePromise]]
            /\ UNCHANGED <<pyodidePromise, initPromises, callResult, delivered>>
       ELSE \* this.pyodidePromise = this.initPyodide(); await ...
            /\ initPromises' = initPyodide
            /\ pyodidePromise' = Len(initPromises')
            /\ callPc' = [callPc EXCEPT ![c] = "awaitInit"]
            /\ callPromise' = [callPromise EXCEPT ![c] = Len(initPromises')]
            /\ joinedSettled' = [joinedSettled EXCEPT ![c] = "pending"]
            /\ UNCHANGED <<callResult, delivered>>
    /\ UNCHANGED pyodide

\* initPyodide runs to its end: runtime, wheels and `import pymupdf` loaded.
InitSucceeds(k) ==
    /\ initPromises[k] = "pending"
    /\ initPromises' = [initPromises EXCEPT ![k] = "fulfilled"]
    /\ UNCHANGED <<pyodide, pyodidePromise, callPc, callPromise, callResult,
                   callsMade, joinedSettled, delivered>>

\* initPyodide throws: the import, loadPyodide, a wheel or runPython failed.
InitFails(k) ==
    /\ initPromises[k] = "pending"
    /\ initPromises' = [initPromises EXCEPT ![k] = "rejected"]
    /\ UNCHANGED <<pyodide, pyodidePromise, callPc, callPromise, callResult,
                   callsMade, joinedSettled, delivered>>

\* The caller that started initPyodide resumes after its await (154-155).
GetPyodideResume(c) ==
    /\ callPc[c] = "awaitInit"
    /\ initPromises[callPromise[c]] # "pending"
    /\ IF initPromises[callPromise[c]] = "fulfilled"
       THEN /\ pyodide' = callPromise[c]
            /\ callPc' = [callPc EXCEPT ![c] = "resolved"]
            /\ callResult' = [callResult EXCEPT ![c] = callPromise[c]]
            /\ delivered' = delivered \cup {callPromise[c]}
       ELSE /\ callPc' = [callPc EXCEPT ![c] = "rejected"]
            /\ UNCHANGED <<pyodide, callResult, delivered>>
    /\ UNCHANGED <<pyodidePromise, initPromises, callPromise, callsMade, joinedSettled>>

\* A caller that was handed this.pyodidePromise settles as that promise does (152).
GetPyodideAdopt(c) ==
    /\ callPc[c] = "awaitPromise"
    /\ initPromises[callPromise[c]] # "pending"
    /\ IF initPromises[callPromise[c]] = "fulfilled"
       THEN /\ callPc' = [callPc EXCEPT ![c] = "resolved"]
            /\ callResult' = [callResult EXCEPT ![c] = callPromise[c]]
            /\ delivered' = delivered \cup {callPromise[c]}
       ELSE /\ callPc' = [callPc EXCEPT ![c] = "rejected"]
            /\ UNCHANGED <<callResult, delivered>>
    /\ UNCHANGED <<pyodide, pyodidePromise, initPromises, callPromise, callsMade, joinedSettled>>

\* The caller has its answer and is free to call the facade again.
CallReturns(c) ==
    /\ callPc[c] \in {"resolved", "rejected"}
    /\ callPc' = [callPc EXCEPT ![c] = "idle"]
    /\ callPromise' = [callPromise EXCEPT ![c] = 0]
    /\ callResult' = [callResult EXCEPT ![c] = 0]
    /\ UNCHANGED <<pyodide, pyodidePromise, initPromises, callsMade, joinedSettled, delivered>>

NextInit ==
    \/ \E c \in Callers : GetPyodideCall(c) /\ UNCHANGED frameInit
    \/ \E k \in 1..Len(initPromises) : InitSucceeds(k) /\ UNCHANGED frameInit
    \/ \E k \in 1..Len(initPromises) : InitFails(k) /\ UNCHANGED frameInit
    \/ \E c \in Callers : GetPyodideResume(c) /\ UNCHANGED frameInit
    \/ \E c \in Callers : GetPyodideAdopt(c) /\ UNCHANGED frameInit
    \/ \E c \in Callers : CallReturns(c) /\ UNCHANGED frameInit

(***************************************************************************)
(* Document handle (src/src/document.ts).  Every method is synchronous, so *)
(* each is one step.  lastOp records the call: whether the handle was      *)
(* closed when it was made, how it ended, how many times it invoked the    *)
(* interpreter (runPython), and every page index it handed to the engine   *)
(* together with the page count at that moment.                            *)
(***************************************************************************)
Idx == -1..MaxPages
IdxSeqs == UNION {[1..k -> Idx] : k \in 0..MaxIndices}
BlankPage == 0

OpRec(op, closedAtCall, outcome, interp, engineIdx, arg, argAfter, pagesBefore) ==
    [op |-> op, closedAtCall |-> closedAtCall, outcome |-> outcome, interp |-> interp,
     engineIdx |-> engineIdx, arg |-> arg, argAfter |-> argAfter, pagesBefore |-> pagesBefore]

NoGen == [st |-> "none", i |-> 0, count |-> 0]

\* The handle as open(input) returns it for an input of n pages (with its
\* input file written) or as create() returns it (no pages, no input file).
InitDoc ==
    /\ closed = FALSE
    /\ \E n \in 0..MaxPages : docPages = [j \in 1..n |-> j]
    /\ engineOpen = TRUE
    /\ inputFile \in BOOLEAN
    /\ (inputFile = FALSE => docPages = << >>)
    /\ closeCalls = 0
    /\ closeAttempts = 0
    /\ unlinkAttempts = 0
    /\ gen = NoGen
    /\ lastOp = OpRec("new", FALSE, "ok", 0, << >>, << >>, << >>, << >>)

\* The handle while a specification of another component runs.
DocIdle ==
    /\ closed = FALSE
    /\ docPages = << >>
    /\ engineOpen = TRUE
    /\ inputFile = FALSE
    /\ closeCalls = 0
    /\ closeAttempts = 0
    /\ unlinkAttempts = 0
    /\ gen = NoGen
    /\ lastOp = OpRec("new", FALSE, "ok", 0, << >>, << >>, << >>, << >>)

\* The engine's page list primitives, for a 0-based index i.
DeleteAt(pages, i) == SubSeq(pages, 1, i) \o SubSeq(pages, i + 2, Len(pages))
InsertAt(pages, i, x) == SubSeq(pages, 1, i) \o <<x>> \o SubSeq(pages, i + 1, Len(pages))
ValidIndex(i, n) == i >= 0 /\ i < n

\* ensureOpen() threw: the call ends before anything else happens.
ClosedError(op) ==
    /\ lastOp' = OpRec(op, TRUE, "closedError", 0, << >>, << >>, << >>, << >>)
    /\ UNCHANGED <<closed, docPages, engineOpen, inputFile, closeCalls, closeAttempts,
                   unlinkAttempts, gen>>

\* get pageCount, isPdf, ... : ensureOpen(), then one runPython whose result is returned.
SimpleOps == {"pageCount", "isPdf", "isEncrypted", "needsPass", "metadata", "setMetadata",
              "convertToPdf", "getToc", "setToc", "isFormPdf", "getFormFields",
              "setFormField", "authenticate", "save", "saveAsBlob", "getLayerConfig",
              "addOCG", "addOCGWithParent", "setLayerVisibility", "setOC", "getOC",
              "deleteOCG"}

Accessor(op, raises) ==
    IF closed THEN ClosedError(op)
    ELSE /\ lastOp' = OpRec(op, FALSE, IF raises THEN "engineError" ELSE "ok", 1,
                            << >>, << >>, << >>, << >>)
         /\ UNCHANGED <<closed, docPages, engineOpen, inputFile, closeCalls, closeAttempts,
                        unlinkAttempts, gen>>

\* getPage(index) (75-85): what it does and how often it reads this.pageCount.
GetPageResult(index) ==
    IF closed THEN [outcome |-> "closedError", interp |-> 0]
    ELSE IF index < 0 THEN [outcome |-> "boundsError", interp |-> 1]
    ELSE IF index >= Len(docPages) THEN [outcome |-> "boundsError", interp |-> 2]
    ELSE [outcome |-> "ok", interp |-> 1]

GetPage(index) ==
    /\ lastOp' = OpRec("getPage", closed, GetPageResult(index).outcome,
                       GetPageResult(index).interp, << >>, << >>, << >>, << >>)
    /\ UNCHANGED <<closed, docPages, engineOpen, inputFile, closeCalls, closeAttempts,
                   unlinkAttempts, gen>>

\* pages() (87-93) is a generator function: the call makes the generator
\* object and runs none of the body.
PagesCall ==
    /\ gen' = [st |-> "start", i |-> 0, count |-> 0]
    /\ lastOp' = OpRec("pages", closed, "ok", 0, << >>, << >>, << >>, << >>)
    /\ UNCHANGED <<closed, docPages, engineOpen, inputFile, closeCalls, closeAttempts,
                   unlinkAttempts>>

\* next() on the generator: the body runs to its next yield.
PagesNext ==
    /\ gen.st \in {"start", "yield"}
    /\ IF gen.st = "start"
       THEN IF closed
            THEN /\ gen' = [st |-> "done", i |-> 0, count |-> 0]
                 /\ lastOp' = OpRec("pages.next", TRUE, "closedError", 0, << >>, << >>, << >>, << >>)
            ELSE IF Len(docPages) > 0
            THEN /\ gen' = [st |-> "yield", i |-> 0, count |-> Len(docPages)]
                 /\ lastOp' = OpRec("pages.next", FALSE, "ok", 2, << >>, << >>, << >>, << >>)
            ELSE /\ gen' = [st |-> "done", i |-> 0, count |-> 0]
                 /\ lastOp' = OpRec("pages.next", FALSE, "ok", 1, << >>, << >>, << >>, << >>)
       ELSE IF gen.i + 1 < gen.count
            THEN /\ gen' = IF GetPageResult(gen.i + 1).outcome = "ok"
                        THEN [gen EXCEPT !.i = @ + 1]
                        ELSE [st |-> "done", i |-> 0, count |-> 0]
                 /\ lastOp' = OpRec("pages.next", closed, GetPageResult(gen.i + 1).outcome,
                                    GetPageResult(gen.i + 1).interp, << >>, << >>, << >>, << >>)
            ELSE /\ gen' = [st |-> "done", i |-> 0, count |-> 0]
                 /\ lastOp' = OpRec("pages.next", closed, "ok", 0, << >>, << >>, << >>, << >>)
    /\ UNCHANGED <<closed, docPages, engineOpen, inputFile, closeCalls, closeAttempts,
                   unlinkAttempts>>

\* deletePage(index) (95-98): the engine refuses an index it does not have.
DeletePage(index) ==
    IF closed THEN ClosedError("deletePage")
    ELSE /\ docPages' = IF ValidIndex(index, Len(docPages))
                        THEN DeleteAt(docPages, index) ELSE docPages
         /\ lastOp' = OpRec("deletePage", FALSE,
                            IF ValidIndex(index, Len(docPages)) THEN "ok" ELSE "engineError",
                            1, <<[idx |-> index, n |-> Len(docPages)]>>,
                            << >>, << >>, << >>)
         /\ UNCHANGED <<closed, engineOpen, inputFile, closeCalls, closeAttempts,
                        unlinkAttempts, gen>>

\* Array.prototype.sort with the comparator (a, b) => b - a: a stable
\* descending sort.
InsertDesc(x, s) ==
    LET k == Cardinality({j \in 1..Len(s) : s[j] >= x})
    IN  SubSeq(s, 1, k) \o <<x>> \o SubSeq(s, k + 1, Len(s))

RECURSIVE SortDesc(_)
SortDesc(s) ==
    IF s = << >> THEN << >>
    ELSE InsertDesc(s[Len(s)], SortDesc(SubSeq(s, 1, Len(s) - 1)))

\* The comparator written (a, b) => a - b.
sortedAscending(indices) ==
    [j \in 1..Len(indices) |-> SortDesc(indices)[Len(indices) + 1 - j]]

\* const sorted = [...indices].sort((a, b) => b - a)   (102)
sorted(indices) == SortDesc(indices)

\* for (const i of sorted) runPython(`delete_page(i)`)   (103-105): the
\* loop ends at the first deletion the engine refuses.
RECURSIVE DeleteLoop(_, _)
DeleteLoop(pages, todo) ==
    IF todo = << >> THEN [pages |-> pages, calls |-> << >>, raised |-> FALSE]
    ELSE LET i == Head(todo)
             call == [idx |-> i, n |-> Len(pages)]
         IN  IF ~ValidIndex(i, Len(pages))
             THEN [pages |-> pages, calls |-> <<call>>, raised |-> TRUE]
             ELSE LET r == DeleteLoop(DeleteAt(pages, i), Tail(todo))
                  IN  [pages |-> r.pages, calls |-> <<call>> \o r.calls, raised |-> r.raised]

\* deletePages(indices) (100-106).
DeletePages(indices) ==
    IF closed THEN ClosedError("deletePages")
    ELSE LET r == DeleteLoop(docPages, sorted(indices))
         IN  /\ docPages' = r.pages
             /\ lastOp' = OpRec("deletePages", FALSE,
                                IF r.raised THEN "engineError" ELSE "ok",
                                Len(r.calls), r.calls, indices, indices, docPages)
             /\ UNCHANGED <<closed, engineOpen, inputFile, closeCalls, closeAttempts,
                            unlinkAttempts, gen>>

\* insertBlankPage(index) (108-114): insert_page first, then getPage(index)
\* against the new page count.  The engine takes -1 and the page count as
\* "after the last page".
InsertBlankPage(index) ==
    /\ Len(docPages) < MaxPages
    /\ IF closed THEN ClosedError("insertBlankPage")
       ELSE LET n == Len(docPages)
                accepted == index >= -1 /\ index <= n
                at == IF index = -1 THEN n ELSE index
            IN  /\ docPages' = IF accepted THEN InsertAt(docPages, at, BlankPage) ELSE docPages
                /\ lastOp' = OpRec("insertBlankPage", FALSE,
                                   IF ~accepted THEN "engineError"
                                   ELSE IF index < 0 THEN "boundsError" ELSE "ok",
                                   IF accepted THEN 2 ELSE 1,
                                   <<[idx |-> index, n |-> n]>>, << >>, << >>, << >>)
                /\ UNCHANGED <<closed, engineOpen, inputFile, closeCalls, closeAttempts,
                               unlinkAttempts, gen>>

\* The engine's move_page / copy_page: the page goes in front of page `to`,
\* or after the last page when `to` is -1.
MoveCopyAccepted(from, to, n) == ValidIndex(from, n) /\ to >= -1 /\ to < n

Moved(pages, from, to) ==
    LET rest == DeleteAt(pages, from)
        at == IF to = -1 THEN Len(rest) ELSE IF to > from THEN to - 1 ELSE to
    IN  InsertAt(rest, at, pages[from + 1])

Copied(pages, from, to) ==
    InsertAt(pages, IF to = -1 THEN Len(pages) ELSE to, pages[from + 1])

\* movePage(from, to) (116-119).
MovePage(from, to) ==
    IF closed THEN ClosedError("movePage")
    ELSE LET n == Len(docPages)
         IN  /\ docPages' = IF MoveCopyAccepted(from, to, n)
                            THEN Moved(docPages, from, to) ELSE docPages
             /\ lastOp' = OpRec("movePage", FALSE,
                                IF MoveCopyAccepted(from, to, n) THEN "ok" ELSE "engineError",
                                1, <<[idx |-> from, n |-> n], [idx |-> to, n |-> n]>>,
                                << >>, << >>, << >>)
             /\ UNCHANGED <<closed, engineOpen, inputFile, closeCalls, closeAttempts,
                            unlinkAttempts, gen>>

\* copyPage(from, to) (121-124).
CopyPage(from, to) ==
    /\ Len(docPages) < MaxPages
    /\ IF closed THEN ClosedError("copyPage")
       ELSE LET n == Len(docPages)
            IN  /\ docPages' = IF MoveCopyAccepted(from, to, n)
                               THEN Copied(docPages, from, to) ELSE docPages
                /\ lastOp' = OpRec("copyPage", FALSE,
                                   IF MoveCopyAccepted(from, to, n) THEN "ok" ELSE "engineError",
                                   1, <<[idx |-> from, n |-> n], [idx |-> to, n |-> n]>>,
                                   << >>, << >>, << >>)
                /\ UNCHANGED <<closed, engineOpen, inputFile, closeCalls, closeAttempts,
                               unlinkAttempts, gen>>

\* selectPages(indices) (126-129): the engine keeps the listed pages, in
\* the listed order, and refuses an empty list or an index it does not have.
SelectPages(indices) ==
    IF closed THEN ClosedError("selectPages")
    ELSE LET n == Len(docPages)
             accepted == indices # << >> /\ \A j \in 1..Len(indices) : ValidIndex(indices[j], n)
         IN  /\ docPages' = IF accepted
                            THEN [j \in 1..Len(indices) |-> docPages[indices[j] + 1]]
                            ELSE docPages
             /\ lastOp' = OpRec("selectPages", FALSE,
                                IF accepted THEN "ok" ELSE "engineError", 1,
                                [j \in 1..Len(indices) |-> [idx |-> indices[j], n |-> n]],
                                << >>, << >>, << >>)
             /\ UNCHANGED <<closed, engineOpen, inputFile, closeCalls, closeAttempts,
                            unlinkAttempts, gen>>

\* insertPdf(sourceDoc) with the default options (131-155): the pages of a
\* source document of srcLen pages are appended.
InsertPdf(srcLen) ==
    /\ Len(docPages) + srcLen <= MaxPages
    /\ IF closed THEN ClosedError("insertPdf")
       ELSE /\ docPages' = docPages \o [j \in 1..srcLen |-> BlankPage]
            /\ lastOp' = OpRec("insertPdf", FALSE, "ok", 1, << >>, << >>, << >>, << >>)
            /\ UNCHANGED <<closed, engineOpen, inputFile, closeCalls, closeAttempts,
                           unlinkAttempts, gen>>

\* searchText(query) (173-186): the loop test reads this.pageCount, getPage
\* reads it again, and each page runs searchFor.
SearchText ==
    IF closed THEN ClosedError("searchText")
    ELSE /\ lastOp' = OpRec("searchText", FALSE, "ok", 3 * Len(docPages) + 1,
                            << >>, << >>, << >>, << >>)
         /\ UNCHANGED <<closed, docPages, engineOpen, inputFile, closeCalls, closeAttempts,
                        unlinkAttempts, gen>>

\* A close() that marks the handle closed inside the try block, after the unlink.
CloseMarksInsideTry(raises) ==
    /\ closeCalls < MaxCloseCalls
    /\ closeCalls' = closeCalls + 1
    /\ IF closed
       THEN /\ lastOp' = OpRec("close", TRUE, "ok", 0, << >>, << >>, << >>, << >>)
            /\ UNCHANGED <<closed, engineOpen, inputFile, closeAttempts, unlinkAttempts>>
       ELSE /\ closeAttempts' = closeAttempts + 1
            /\ lastOp' = OpRec("close", FALSE, "ok", 1, << >>, << >>, << >>, << >>)
            /\ IF raises
               THEN UNCHANGED <<closed, engineOpen, inputFile, unlinkAttempts>>
               ELSE /\ engineOpen' = FALSE
                    /\ unlinkAttempts' = unlinkAttempts + 1
                    /\ inputFile' = FALSE
                    /\ closed' = inputFile
    /\ UNCHANGED <<docPages, gen>>

\* close() (814-822).  `raises`: the engine's close() raised.  The unlink
\* raises when the input file does not exist; both are swallowed.
Close(raises) ==
    /\ closeCalls < MaxCloseCalls
    /\ closeCalls' = closeCalls + 1
    /\ IF closed
       THEN \* if (this.closed) return;
            /\ lastOp' = OpRec("close", TRUE, "ok", 0, << >>, << >>, << >>, << >>)
            /\ UNCHANGED <<closed, engineOpen, inputFile, closeAttempts, unlinkAttempts>>
       ELSE /\ closeAttempts' = closeAttempts + 1
            /\ lastOp' = OpRec("close", FALSE, "ok", 1, << >>, << >>, << >>, << >>)
            /\ IF raises
               THEN UNCHANGED <<engineOpen, inputFile, unlinkAttempts>>
               ELSE /\ engineOpen' = FALSE
                    /\ unlinkAttempts' = unlinkAttempts + 1
                    /\ inputFile' = FALSE
            /\ closed' = TRUE
    /\ UNCHANGED <<docPages, gen>>

(***************************************************************************)
(* PyMuPDFDocument.save(options).  An option, a permission flag or a       *)
(* password the caller left out is "omitted"; the booleans a caller passes *)
(* are "true" and "false".                                                 *)
(***************************************************************************)
Flag == {"true", "false", "omitted"}
GarbageLevels == {"omitted", "0", "4"}
UserPasswords == {"omitted", "user"}

\* permissions left out of the encryption options: `enc.permissions ?? {}`
NoPermissions == [print |-> "omitted", modify |-> "omitted", copy |-> "omitted",
                  annotate |-> "omitted"]

NoEncryption == [present |-> FALSE, ownerPassword |-> "", userPassword |-> "omitted",
                 hasPermissions |-> FALSE, permissions |-> NoPermissions]

Encryptions ==
    {NoEncryption} \cup
    [present : {TRUE}, ownerPassword : {"owner"}, userPassword : UserPasswords,
     hasPermissions : {FALSE}, permissions : {NoPermissions}] \cup
    [present : {TRUE}, ownerPassword : {"owner"}, userPassword : UserPasswords,
     hasPermissions : {TRUE},
     permissions : [print : Flag, modify : Flag, copy : Flag, annotate : Flag]]

\* The options save() is called with: every encryption setting with the
\* other options left out, and every setting of the other options without
\* encryption.
SaveOptions ==
    [garbage : {"omitted"}, deflate : {"omitted"}, clean : {"omitted"},
     encryption : Encryptions] \cup
    [garbage : GarbageLevels, deflate : Flag, clean : Flag, encryption : {NoEncryption}]

\* The | of two non-negative numbers, bit by bit.
RECURSIVE BitOr(_, _)
BitOr(a, b) ==
    IF a = 0 THEN b
    ELSE IF b = 0 THEN a
    ELSE (IF a % 2 = 1 \/ b % 2 = 1 THEN 1 ELSE 0) + 2 * BitOr(a \div 2, b \div 2)

permValueTruthy(perms) ==
    BitOr(BitOr(BitOr(IF perms.print = "true" THEN 4 ELSE 0,
                      IF perms.modify = "true" THEN 8 ELSE 0),
                IF perms.copy = "true" THEN 16 ELSE 0),
          IF perms.annotate = "true" THEN 32 ELSE 0)

permValue(perms) ==
    BitOr(BitOr(BitOr(IF perms.print # "false" THEN 4 ELSE 0,
                      IF perms.modify # "false" THEN 8 ELSE 0),
                IF perms.copy # "false" THEN 16 ELSE 0),
          IF perms.annotate # "false" THEN 32 ELSE 0)

\* No encryption keyword is passed to tobytes().
NoEncryptParams == [present |-> FALSE, owner_pw |-> "", user_pw |-> "", permissions |-> 0]

encryptParams(options) ==
    IF options.encryption.present
    THEN LET enc == options.encryption
             perms == IF enc.hasPermissions THEN enc.permissions ELSE NoPermissions
         IN [present |-> TRUE,
             owner_pw |-> enc.ownerPassword,
             user_pw |-> IF enc.userPassword = "omitted" THEN "" ELSE enc.userPassword,
             permissions |-> permValue(perms)]
    ELSE NoEncryptParams

\* The keyword arguments of the ${docVar}.tobytes(...) that save() runs.
Tobytes(options) ==
    [garbage |-> IF options.garbage = "omitted" THEN "1" ELSE options.garbage,
     deflate |-> options.deflate # "false",
     clean |-> options.clean # "false",
     encryption |-> encryptParams(options)]

NoTobytes == [garbage |-> "", deflate |-> FALSE, clean |-> FALSE,
              encryption |-> NoEncryptParams]

NoSaveOptions == [garbage |-> "omitted", deflate |-> "omitted", clean |-> "omitted",
                  encryption |-> NoEncryption]

SaveIdle == saveCall = [made |-> FALSE, ran |-> FALSE, options |-> NoSaveOptions,
                        tobytes |-> NoTobytes]

Save(options, raises) ==
    IF closed
    THEN /\ ClosedError("save")
         /\ saveCall' = [made |-> TRUE, ran |-> FALSE, options |-> options,
                         tobytes |-> NoTobytes]
    ELSE /\ lastOp' = OpRec("save", FALSE, IF raises THEN "engineError" ELSE "ok", 1,
                            << >>, << >>, << >>, << >>)
         /\ saveCall' = [made |-> TRUE, ran |-> TRUE, options |-> options,
                         tobytes |-> Tobytes(options)]
         /\ UNCHANGED <<closed, docPages, engineOpen, inputFile, closeCalls, closeAttempts,
                        unlinkAttempts, gen>>

(***************************************************************************)
(* The Number arithmetic of compressPdf's result (1129-1137).  A Number is *)
(* an IEEE-754 binary64: sign * m * 2^e with m a significand of            *)
(* Significand bits, most significant first, and every operation yields    *)
(* the representable value nearest the exact result, ties to the even      *)
(* significand.  The sizes here stay far from the subnormal and overflow   *)
(* ranges.                                                                 *)
(***************************************************************************)
Significand == 53

Zero == [sign |-> 0, m |-> << >>, e |-> 0]

Zeros(k) == [j \in 1..k |-> 0]

\* The binary digits of a natural number, and back.
RECURSIVE NatBits(_)
NatBits(n) == IF n = 0 THEN << >> ELSE Append(NatBits(n \div 2), n % 2)

RECURSIVE BitsNat(_)
BitsNat(b) ==
    IF b = << >> THEN 0 ELSE 2 * BitsNat(SubSeq(b, 1, Len(b) - 1)) + b[Len(b)]

\* b + 1
IncBits(b) ==
    LET Z == {j \in 1..Len(b) : b[j] = 0}
    IN  IF Z = {} THEN <<1>> \o Zeros(Len(b))
        ELSE LET last == CHOOSE j \in Z : \A i \in Z : i <= j
             IN  [j \in 1..Len(b) |-> IF j < last THEN b[j] ELSE IF j = last THEN 1 ELSE 0]

\* b * k for 0 < k < 2^15, the digits of b taken 14 at a time from the
\* right: Limb(b, i) is the i-th such group, LimbCarry(b, k, i) the carry
\* into it and ProdLimb(b, k, i) the group of the product at its place.
Limb(b, i) ==
    BitsNat(SubSeq(b, IF Len(b) - 14 * i - 13 < 1 THEN 1 ELSE Len(b) - 14 * i - 13,
                   Len(b) - 14 * i))

RECURSIVE LimbCarry(_, _, _)
LimbCarry(b, k, i) ==
    IF i = 0 THEN 0 ELSE (Limb(b, i - 1) * k + LimbCarry(b, k, i - 1)) \div 2^14

ProdLimb(b, k, i) == (Limb(b, i) * k + LimbCarry(b, k, i)) % 2^14

\* The t digits of v < 2^t.
DigitsOf(v, t) == [j \in 1..t |-> (v \div 2^(t - j)) % 2]

\* The groups i, i-1, ..., 0 of the product, in that order.
RECURSIVE ProdDigits(_, _, _)
ProdDigits(b, k, i) ==
    IF i < 0 THEN << >> ELSE DigitsOf(ProdLimb(b, k, i), 14) \o ProdDigits(b, k, i - 1)

MulBits(b, k) ==
    LET n == (Len(b) + 13) \div 14
        all == NatBits(LimbCarry(b, k, n)) \o ProdDigits(b, k, n - 1)
        first == CHOOSE j \in 1..Len(all) : all[j] = 1 /\ \A i \in 1..(j - 1) : all[i] = 0
    IN  SubSeq(all, first, Len(all))

\* The next k binary digits of r / d, for 0 <= r < d < 2^17, and the
\* remainder left: long division, up to 14 digits at a step.
RECURSIVE DivBits(_, _, _)
DivBits(r, d, k) ==
    IF k = 0 THEN [bits |-> << >>, rem |-> r]
    ELSE LET t == IF k < 14 THEN k ELSE 14
             rest == DivBits((r * 2^t) % d, d, k - t)
         IN  [bits |-> DigitsOf((r * 2^t) \div d, t) \o rest.bits, rem |-> rest.rem]

\* How often 0 < r < d is doubled while it stays below d.
RECURSIVE Doublings(_, _)
Doublings(r, d) == IF 2 * r >= d THEN 0 ELSE 1 + Doublings(2 * r, d)

\* A significand of Significand bits, incremented when the dropped part
\* rounds up; an increment that carries out of the top bit gives 1000...0.
Rounded(sign, kept, e, up) ==
    LET m == IF up THEN IncBits(kept) ELSE kept
    IN  IF Len(m) > Significand
        THEN [sign |-> sign, m |-> SubSeq(m, 1, Significand), e |-> e + 1]
        ELSE [sign |-> sign, m |-> m, e |-> e]

\* The Number nearest sign * b * 2^e, for digits b with b[1] = 1.
RoundBits(sign, b, e) ==
    IF Len(b) <= Significand
    THEN [sign |-> sign, m |-> b \o Zeros(Significand - Len(b)),
          e |-> e - (Significand - Len(b))]
    ELSE LET kept == SubSeq(b, 1, Significand)
             guard == b[Significand + 1]
             sticky == \E j \in (Significand + 2)..Len(b) : b[j] = 1
             up == guard = 1 /\ (sticky \/ kept[Significand] = 1)
         IN  Rounded(sign, kept, e + (Len(b) - Significand), up)

\* n / d for integers n and d > 0.
FlDiv(n, d) ==
    IF n = 0 THEN Zero
    ELSE LET sign == IF n < 0 THEN -1 ELSE 1
             a == IF n < 0 THEN -n ELSE n
             whole == NatBits(a \div d)
             skip == IF whole = << >> THEN Doublings(a, d) ELSE 0
             r == IF whole = << >> THEN DivBits(a, d, skip).rem ELSE a % d
             frac == DivBits(r, d, Significand - Len(whole))
             kept == whole \o frac.bits
             up == \/ 2 * frac.rem > d
                   \/ 2 * frac.rem = d /\ kept[Significand] = 1
         IN  Rounded(sign, kept, -(skip + Significand - Len(whole)), up)

\* x * k for a Number x and an integer k > 0.
FlMul(x, k) ==
    IF x.sign = 0 THEN Zero ELSE RoundBits(x.sign, MulBits(x.m, k), x.e)

\* Math.round(x): the integer nearest x, a tie going to the larger one.
\* For |x| < 2^31.
MathRound(x) ==
    IF x.sign = 0 \/ -x.e > Significand THEN 0
    ELSE LET whole == BitsNat(SubSeq(x.m, 1, Significand + x.e))
             half == x.m[Significand + x.e + 1]
             more == \E j \in (Significand + x.e + 2)..Significand : x.m[j] = 1
         IN  IF x.sign > 0 THEN whole + half
             ELSE -(whole + (IF half = 1 /\ more THEN 1 ELSE 0))

(***************************************************************************)
(* PyMuPDF.compressPdf (1025-1140): the sizes and counts of its result.    *)
(* The temporary entry it writes is followed in the filesystem part.       *)
(***************************************************************************)
NoResult == [originalSize |-> 0, compressedSize |-> 0, savings |-> 0,
             savingsPercent |-> Zero, pageCount |-> 0]

NoCompress == [pc |-> "none", input |-> [size |-> 0, pages |-> 0], originalSize |-> 0,
               log |-> << >>, result |-> NoResult]

CompressIdle == compressCall = NoCompress

\* compressPdf(pdf) has been called with a document of `pages` pages held in
\* `size` bytes.
InitCompress ==
    \E size \in 0..MaxSize, pages \in 0..MaxPages :
        compressCall = [NoCompress EXCEPT !.pc = "called",
                                          !.input = [size |-> size, pages |-> pages]]

\* 1026-1032: up to the write of the input entry.
CompressMeasure ==
    /\ compressCall.pc = "called"
    /\ compressCall' = [compressCall EXCEPT
                            !.pc = "written",
                            !.originalSize = compressCall.input.size,
                            !.log = <<"byteLength", "writeFile">>]

\* 1129-1139: the result object, for the compressedSize and pageCount the
\* script answered.
CompressResult(originalSize, compressedSize, pageCount) ==
    LET savings == originalSize - compressedSize
        savingsPercent == IF originalSize > 0
                          THEN FlMul(FlDiv(savings, originalSize), 100)
                          ELSE Zero
    IN  [originalSize |-> originalSize,
         compressedSize |-> compressedSize,
         savings |-> savings,
         savingsPercent |-> FlDiv(MathRound(FlMul(savingsPercent, 10)), 10),
         pageCount |-> pageCount]

\* 1063-1139: the script opens the input, reads its page count, rewrites it
\* into compressedSize bytes, and the result is put together.
CompressReturns(compressedSize) ==
    /\ compressCall.pc = "written"
    /\ compressCall' = [compressCall EXCEPT
                            !.pc = "resolved",
                            !.log = @ \o <<"runPython", "unlink">>,
                            !.result = CompressResult(compressCall.originalSize,
                                                      compressedSize,
                                                      compressCall.input.pages)]

\* The script raised: the call rejects.
CompressRaises ==
    /\ compressCall.pc = "written"
    /\ compressCall' = [compressCall EXCEPT !.pc = "rejected",
                                            !.log = @ \o <<"runPython">>]

NextCompress ==
    \/ CompressMeasure /\ UNCHANGED frameCompress
    \/ \E compressedSize \in 0..(MaxSize + MaxGrowth) :
           CompressReturns(compressedSize) /\ UNCHANGED frameCompress
    \/ CompressRaises /\ UNCHANGED frameCompress

(***************************************************************************)
(* Optional-content groups (src/src/document.ts 299-812).  The code edits  *)
(* the text of PDF arrays, so a text is modelled as what it is: a sequence *)
(* of characters.  The operators below do what the Python operations of    *)
(* the generated source do on such a text.                                 *)
(***************************************************************************)
MaxGroups == 3
MaxTokens == 5
MaxPieces == 3

Digit == <<"0", "1", "2", "3", "4", "5", "6", "7", "8", "9">>

\* str.isdigit() and the class \d
IsDigit(c) == \E d \in 1..10 : Digit[d] = c

\* the class \s
IsSpace(c) == c = " "

DigitVal(c) == (CHOOSE d \in 1..10 : Digit[d] = c) - 1

\* str(n) of a natural number, as f"{n} 0 R" and str(ocgXref) format it
RECURSIVE str(_)
str(n) ==
    IF n < 10 THEN <<Digit[n + 1]>>
    ELSE str(n \div 10) \o <<Digit[(n % 10) + 1]>>

\* int(digits)
RECURSIVE int(_)
int(ds) ==
    IF ds = <<>> THEN 0
    ELSE 10 * int(SubSeq(ds, 1, Len(ds) - 1)) + DigitVal(ds[Len(ds)])

\* f"{x} 0 R"
Ref(x) == str(x) \o <<" ", "0", " ", "R">>

\* what xref_get_key returns as the value of a key that does not exist
NullText == <<"n", "u", "l", "l">>

\* s[i:] and s[i:j] with the positions counted from 1, j exclusive
Slice(s, i, j) == IF j > i THEN SubSeq(s, i, j - 1) ELSE <<>>

From(s, i) == Slice(s, i, Len(s) + 1)

\* s.startswith(p)
startswith(s, p) == Len(p) <= Len(s) /\ SubSeq(s, 1, Len(p)) = p

\* s.find(p): the first position of p in s, 0 when there is none
find(s, p) ==
    LET at == {i \in 1..(Len(s) - Len(p) + 1) : SubSeq(s, i, i + Len(p) - 1) = p}
    IN  IF at = {} THEN 0 ELSE CHOOSE i \in at : \A k \in at : i <= k

\* p in s
contains(s, p) == find(s, p) # 0

\* the characters of the classes \d and \s
DigitChars == {Digit[d] : d \in 1..10}

SpaceChars == {" "}

\* The end (exclusive) of the longest run of characters of one class that
\* starts at position i: what a greedy \d+, \s+ or \s* consumes.
Span(s, i, class) ==
    CHOOSE j \in i..(Len(s) + 1) :
        /\ \A k \in i..(j - 1) : s[k] \in class
        /\ j = Len(s) + 1 \/ s[j] \notin class

\* re.match(r'(\d+)\s+0\s+R', s[i:]) and, with anyGen, r'(\d+)\s+\d+\s+R':
\* the end (exclusive) of the match, 0 when there is none.  Each quantifier
\* is followed by a character outside its class, so only the longest run
\* can match.
RefEnd(s, i, anyGen) ==
    LET d == Span(s, i, DigitChars)
        w == Span(s, d, SpaceChars)
        g == IF anyGen THEN Span(s, w, DigitChars)
             ELSE IF w <= Len(s) /\ s[w] = "0" THEN w + 1 ELSE w
        v == Span(s, g, SpaceChars)
    IN  IF i <= Len(s) /\ d > i /\ w > d /\ g > w /\ v > g /\ v <= Len(s) /\ s[v] = "R"
        THEN v + 1 ELSE 0

\* group(1) of that match, as int
RefNum(s, i) == int(Slice(s, i, Span(s, i, DigitChars)))

\* the first position at or after i where the pattern matches, 0 when none
RefSearch(s, i, anyGen) ==
    LET at == {k \in i..Len(s) : RefEnd(s, k, anyGen) # 0}
    IN  IF at = {} THEN 0 ELSE CHOOSE k \in at : \A m \in at : k <= m

\* [int(x) for x in re.findall(r'(\d+)\s+0\s+R', s)]
RECURSIVE findall(_, _)
findall(s, i) ==
    LET k == RefSearch(s, i, FALSE)
    IN  IF k = 0 THEN <<>>
        ELSE <<RefNum(s, k)>> \o findall(s, RefEnd(s, k, FALSE))

\* s.strip() for a text whose only whitespace is the space
strip(s) ==
    LET a == Span(s, 1, SpaceChars)
        ends == {j \in (a - 1)..Len(s) : \A k \in (j + 1)..Len(s) : IsSpace(s[k])}
        b == CHOOSE j \in ends : \A m \in ends : j <= m
    IN  IF a > Len(s) THEN <<>> ELSE SubSeq(s, a, b)

\* the concatenation of a sequence of texts
RECURSIVE Concat(_)
Concat(ts) == IF ts = <<>> THEN <<>> ELSE Head(ts) \o Concat(Tail(ts))

(***************************************************************************)
(* The engine-side document, as far as the layer code reads and writes it. *)
(* /OCProperties of the catalog and /D of /OCProperties are each absent,   *)
(* an inline dictionary or a reference to an object of its own; the arrays *)
(* OCGs, ON, OFF and Order are texts (NullText: no such key).  A key path  *)
(* "A/B/C" is the sequence of its keys.                                    *)
(***************************************************************************)
CatalogXref == 1
OcpXref == 2
DXref == 3

Places == {"absent", "inline", "indirect"}

\* [ocp, d]: every combination the code distinguishes
Configs ==
    {c \in [ocp : Places, d : Places] : c.ocp = "absent" => c.d = "absent"}

ArrayKeys == {"OCGs", "ON", "OFF", "Order"}

NoArrays == [k \in ArrayKeys |-> NullText]

DictText == <<"<", "<", ">", ">">>

NullValue == [t |-> "null", v |-> NullText]

\* the object a key of a dictionary leads to ("none": there is no such key)
Step(oc, at, key) ==
    CASE at = "catalog" /\ key = "OCProperties" /\ oc.ocp # "absent" -> "ocp"
      [] at = "ocp" /\ key = "D" /\ oc.d # "absent" -> "d"
      [] at = "ocp" /\ key = "OCGs" /\ oc.arr["OCGs"] # NullText -> "OCGs"
      [] at = "d" /\ key \in {"ON", "OFF", "Order"} /\ oc.arr[key] # NullText -> key
      [] OTHER -> "none"

\* the object a numbered object is
ObjectAt(oc, xref) ==
    CASE xref = CatalogXref -> "catalog"
      [] xref = OcpXref /\ oc.ocp = "indirect" -> "ocp"
      [] xref = DXref /\ oc.d = "indirect" -> "d"
      [] OTHER -> "none"

\* the engine follows references on its way down a key path
RECURSIVE Walk(_, _, _)
Walk(oc, at, path) ==
    IF path = <<>> THEN at ELSE Walk(oc, Step(oc, at, Head(path)), Tail(path))

\* doc.xref_get_key(xref, path): the (type, value) pair
xref_get_key(oc, xref, path) ==
    LET at == Walk(oc, ObjectAt(oc, xref), path)
    IN  CASE at = "ocp" ->
                 IF oc.ocp = "indirect" THEN [t |-> "xref", v |-> Ref(OcpXref)]
                 ELSE [t |-> "dict", v |-> DictText]
          [] at = "d" ->
                 IF oc.d = "indirect" THEN [t |-> "xref", v |-> Ref(DXref)]
                 ELSE [t |-> "dict", v |-> DictText]
          [] at \in ArrayKeys -> [t |-> "array", v |-> oc.arr[at]]
          [] OTHER -> NullValue

\* the array a key path written to leads to ("none": not one of the four)
Target(oc, xref, path) ==
    IF path = <<>> THEN "none"
    ELSE LET dict == Walk(oc, ObjectAt(oc, xref), SubSeq(path, 1, Len(path) - 1))
             key == path[Len(path)]
         IN  IF \/ dict = "ocp" /\ key = "OCGs"
                \/ dict = "d" /\ key \in {"ON", "OFF", "Order"}
             THEN key ELSE "none"

\* a key path that crosses a reference before its last key
CrossesReference(oc, xref, path) ==
    \E n \in 1..(Len(path) - 1) :
        LET at == Walk(oc, ObjectAt(oc, xref), SubSeq(path, 1, n))
        IN  \/ at = "ocp" /\ oc.ocp = "indirect"
            \/ at = "d" /\ oc.d = "indirect"

\* doc.xref_set_key(xref, path, value) when the engine accepts it
xref_set_key(oc, xref, path, value) ==
    LET key == Target(oc, xref, path)
    IN  IF key = "none" THEN oc
        ELSE [oc EXCEPT !.arr[key] = value]

\* A group is [xref, name]: its object number and the value of its /Name,
\* a literal string "(...)".  layer_ui_configs() is the engine's list of
\* [number, text].
ParenName(n) == <<"(", n, ")">>

GroupXrefs == <<5, 15, 7, 25, 35>>

GroupNames == <<"A", "B", "C", "D", "E">>

\* doc.xref_get_key(xref, "Name") of a group object
NameOf(groups, xref) ==
    LET at == {g \in 1..Len(groups) : groups[g].xref = xref}
    IN  IF at = {} THEN NullValue
        ELSE [t |-> "string", v |-> groups[CHOOSE g \in at : TRUE].name]

\* an object number the document has no object for: xref_get_key raises
BadXref(groups, xref) ==
    xref \notin {CatalogXref, OcpXref, DXref} \cup {groups[g].xref : g \in 1..Len(groups)}

(***************************************************************************)
(* getLayerConfig (299-443).  The call is followed in steps: the part up   *)
(* to the first parse_order_array call, then one step per turn of the      *)
(* scanner's while loop (a nested call is a new frame on layerCall.stack), *)
(* then the sort and the return.                                           *)
(***************************************************************************)
\* an array as the engine holds it: whether the key exists and its tokens
Absent == [present |-> FALSE, tokens |-> <<>>]

Present(tokens) == [present |-> TRUE, tokens |-> tokens]

Doc(groups, layers, tokens, style, on, off, family) ==
    [groups |-> groups, layers |-> layers, tokens |-> tokens, style |-> style,
     on |-> on, off |-> off, family |-> family]

NoGroups == Doc(<<>>, <<>>, <<>>, "spaced", Absent, Absent, "none")

NoOcProps == [ocp |-> "absent", d |-> "absent", arr |-> NoArrays]

NoLayerCall ==
    [pc |-> "idle", layer_map |-> <<>>, xref_to_num |-> <<>>, display_order |-> 0,
     stack |-> <<>>, result |-> <<>>, caught |-> FALSE, seen |-> NoOcProps]

NoOcCall ==
    [op |-> "none", arg |-> <<>>, before |-> NoOcProps, created |-> NoOcProps,
     cleaned |-> <<>>, reads |-> <<>>, writes |-> <<>>, outcome |-> "none", result |-> 0,
     known |-> <<>>]

LayerIdle ==
    /\ ocProps = NoOcProps
    /\ layerDoc = NoGroups
    /\ layerCall = NoLayerCall
    /\ ocCall = NoOcCall

\* the entry layer_map[num] made for one element of layer_ui_configs()
Descriptor(layer) ==
    [number |-> layer.number, text |-> layer.text, depth |-> 0, xref |-> 0,
     parentXref |-> 0, displayOrder |-> 0]

\* a value that is None unless the key exists
ValueOrNone(r) == IF r.t # "null" THEN r.v ELSE <<>>

\* int(re.search(r'(\d+)\s+\d+\s+R', value).group(1)), 0 when there is no match
ReferenceIn(value) ==
    LET k == RefSearch(value, 1, TRUE)
    IN  IF k = 0 THEN 0 ELSE RefNum(value, k)

\* 330-350: [ocgs_str, order_str]
LocateLayerTexts(oc) ==
    LET ocprop == xref_get_key(oc, CatalogXref, <<"OCProperties">>)
        ocprop_xref == ReferenceIn(ocprop.v)
        d == xref_get_key(oc, ocprop_xref, <<"D">>)
        d_xref == ReferenceIn(d.v)
    IN  IF ocprop.t = "dict"
        THEN [ocgs_str |-> ValueOrNone(xref_get_key(oc, CatalogXref, <<"OCProperties", "OCGs">>)),
              order_str |-> ValueOrNone(xref_get_key(oc, CatalogXref, <<"OCProperties", "D", "Order">>))]
        ELSE IF ocprop.t # "null" /\ ocprop_xref # 0
        THEN [ocgs_str |-> ValueOrNone(xref_get_key(oc, ocprop_xref, <<"OCGs">>)),
              order_str |->
                  IF d.t = "dict"
                  THEN ValueOrNone(xref_get_key(oc, ocprop_xref, <<"D", "Order">>))
                  ELSE IF d.t # "null" /\ d_xref # 0
                  THEN ValueOrNone(xref_get_key(oc, d_xref, <<"Order">>))
                  ELSE <<>>]
        ELSE [ocgs_str |-> <<>>, order_str |-> <<>>]

\* 359-361: name_to_num[text], the dictionary filled in the order of layer_map
name_to_num(map, text) ==
    LET at == {p \in 1..Len(map) : map[p].text = text}
        last == CHOOSE p \in at : \A q \in at : q <= p
    IN  map[last].number

\* 368-370
StripParens(name) ==
    IF Len(name) >= 1 /\ name[1] = "(" /\ name[Len(name)] = ")"
    THEN Slice(name, 2, Len(name))
    ELSE name

Position(map, num) == CHOOSE p \in 1..Len(map) : map[p].number = num

\* xref_to_num[xref] = num on a dictionary kept as a sequence of pairs
Assign(dict, key, value) ==
    IF \E p \in 1..Len(dict) : dict[p][1] = key
    THEN [p \in 1..Len(dict) |-> IF dict[p][1] = key THEN <<key, value>> ELSE dict[p]]
    ELSE Append(dict, <<key, value>>)

Has(dict, key) == \E p \in 1..Len(dict) : dict[p][1] = key

Get(dict, key) == dict[CHOOSE p \in 1..Len(dict) : dict[p][1] = key][2]

\* 363-376: the loop over ocg_xrefs; st is [layer_map, xref_to_num, raised]
RECURSIVE PairNames(_, _, _)
PairNames(groups, xrefs, st) ==
    IF xrefs = <<>> \/ st.raised THEN st
    ELSE LET xref == Head(xrefs)
             r == NameOf(groups, xref)
             ocg_name == StripParens(strip(r.v))
             known == \E p \in 1..Len(st.layer_map) : st.layer_map[p].text = ocg_name
             num == name_to_num(st.layer_map, ocg_name)
         IN  IF BadXref(groups, xref)
             THEN [st EXCEPT !.raised = TRUE]
             ELSE IF r.t # "null" /\ r.v # <<>> /\ known
             THEN PairNames(groups, Tail(xrefs),
                      [st EXCEPT !.layer_map[Position(st.layer_map, num)].xref = xref,
                                 !.xref_to_num = Assign(st.xref_to_num, xref, num)])
             ELSE PairNames(groups, Tail(xrefs), st)

\* 383-386
InnerOrder(order_str) ==
    LET inner_order == strip(order_str)
    IN  IF Len(inner_order) >= 1 /\ inner_order[1] = "[" /\ inner_order[Len(inner_order)] = "]"
        THEN Slice(inner_order, 2, Len(inner_order))
        ELSE inner_order

\* one activation of parse_order_array(order_val, depth, parent_xref)
Frame(order_val, depth, parent_xref) ==
    [order_val |-> order_val, i |-> 1, depth |-> depth, parent_xref |-> parent_xref,
     last_xref |-> 0]

\* 299-387: up to the call of parse_order_array
GetLayerConfigCall ==
    /\ layerCall.pc \in {"ready", "done"}
    /\ \E texts \in {LocateLayerTexts(ocProps)} :
       \E layer_map \in {[p \in 1..Len(layerDoc.layers) |-> Descriptor(layerDoc.layers[p])]} :
       \E ocg_xrefs \in {findall(texts.ocgs_str, 1)} :
       \E unpaired \in {[layer_map |-> layer_map, xref_to_num |-> <<>>, raised |-> FALSE]} :
       \E paired \in {IF texts.ocgs_str # <<>>
                      THEN PairNames(layerDoc.groups, ocg_xrefs, unpaired)
                      ELSE unpaired} :
       \E parses \in {~paired.raised /\ texts.order_str # <<>>} :
           layerCall' =
               [layerCall EXCEPT
                   !.pc = IF parses THEN "scan" ELSE "scanned",
                   !.seen = ocProps,
                   !.result = <<>>,
                   !.layer_map = paired.layer_map,
                   !.xref_to_num = paired.xref_to_num,
                   !.display_order = 0,
                   !.stack = IF parses
                             THEN <<Frame(InnerOrder(texts.order_str), 0, 0)>>
                             ELSE <<>>,
                   !.caught = paired.raised]
    /\ UNCHANGED <<ocProps, layerDoc, ocCall, frameLayers>>

\* 401-406: the position after the bracket that closes the one at i, or the
\* end of the text when none does
AfterMatchingStuck(s, i) == i

AfterMatching(s, i) ==
    LET level(m) == 1 + Cardinality({k \in (i + 1)..m : s[k] = "["})
                      - Cardinality({k \in (i + 1)..m : s[k] = "]"})
        closes == {m \in (i + 1)..Len(s) : level(m) = 0}
    IN  IF closes = {} THEN Len(s) + 1
        ELSE (CHOOSE m \in closes : \A k \in closes : m <= k) + 1

\* 427-430: i += 1
Skip(f) == [f EXCEPT !.i = f.i + 1]

\* 409: parse_order_array(nested_content, depth + 1, last_xref), called by
\* the activation f at the bracket that closes before position j
NestedCallOfParent(f, j) ==
    Frame(Slice(f.order_val, f.i + 1, j - 1), f.depth + 1, f.parent_xref)

NestedCall(f, j) ==
    Frame(Slice(f.order_val, f.i + 1, j - 1), f.depth + 1, f.last_xref)

\* replace the top frame by f, or by f and a nested call on top of it
ReplaceTop(stack, frames) == SubSeq(stack, 1, Len(stack) - 1) \o frames

\* 390-430: one turn of `while i < len(order_val)`, or the return of the
\* activation when the loop is over
ParseStep ==
    /\ layerCall.pc = "scan"
    /\ LET stack == layerCall.stack
           f == stack[Len(stack)]
           s == f.order_val
           i == f.i
           j == AfterMatching(s, i)
           e == RefEnd(s, i, FALSE)
           xref == RefNum(s, i)
           num == Get(layerCall.xref_to_num, xref)
           p == Position(layerCall.layer_map, num)
       IN  IF i > Len(s)
           THEN layerCall' =
                    [layerCall EXCEPT
                        !.stack = SubSeq(stack, 1, Len(stack) - 1),
                        !.pc = IF Len(stack) = 1 THEN "scanned" ELSE "scan"]
           ELSE IF s[i] = "["
           THEN layerCall' =
                    [layerCall EXCEPT
                        !.stack = ReplaceTop(stack,
                            <<[f EXCEPT !.i = j], NestedCall(f, j)>>)]
           ELSE IF IsDigit(s[i]) /\ e # 0
           THEN layerCall' =
                    [layerCall EXCEPT
                        !.stack = ReplaceTop(stack, <<[f EXCEPT !.i = e, !.last_xref = xref]>>),
                        !.layer_map =
                            IF Has(layerCall.xref_to_num, xref)
                            THEN [@ EXCEPT ![p].depth = f.depth,
                                           ![p].parentXref = f.parent_xref,
                                           ![p].displayOrder = layerCall.display_order]
                            ELSE @,
                        !.display_order = IF Has(layerCall.xref_to_num, xref) THEN @ + 1 ELSE @]
           ELSE layerCall' =
                    [layerCall EXCEPT
                        !.stack = ReplaceTop(stack, <<Skip(f)>>)]
    /\ UNCHANGED <<ocProps, layerDoc, ocCall, frameLayers>>

\* sorted(values, key=displayOrder): Python's sort is stable
SortedByDisplayOrder(values) ==
    LET rank(p) == Cardinality({q \in 1..Len(values) :
                        \/ values[q].displayOrder < values[p].displayOrder
                        \/ values[q].displayOrder = values[p].displayOrder /\ q < p}) + 1
    IN  [r \in 1..Len(values) |-> values[CHOOSE p \in 1..Len(values) : rank(p) = r]]

\* 438-442
GetLayerConfigReturn ==
    /\ layerCall.pc = "scanned"
    /\ layerCall' = [layerCall EXCEPT !.pc = "done",
                                      !.result = SortedByDisplayOrder(layerCall.layer_map)]
    /\ UNCHANGED <<ocProps, layerDoc, ocCall, frameLayers>>

(***************************************************************************)
(* The documents getLayerConfig is run on.  An ordering array is built     *)
(* from tokens, each a text: "[", "]" or a reference; the engine prints an *)
(* array with a space between any two tokens or only where two tokens      *)
(* would otherwise run together.                                           *)
(***************************************************************************)
OpenTok == <<"[">>

CloseTok == <<"]">>

IsRefTok(t) == t # OpenTok /\ t # CloseTok

\* the number of "[" not yet closed before position p of a token sequence
Level(tokens, p) ==
    Cardinality({k \in 1..(p - 1) : tokens[k] = OpenTok})
    - Cardinality({k \in 1..(p - 1) : tokens[k] = CloseTok})

\* balanced brackets, no reference twice
WellFormed(tokens) ==
    /\ \A p \in 1..Len(tokens) : tokens[p] = CloseTok => Level(tokens, p) > 0
    /\ Level(tokens, Len(tokens) + 1) = 0
    /\ \A p, q \in 1..Len(tokens) :
           IsRefTok(tokens[p]) /\ tokens[p] = tokens[q] => p = q

Styles == {"spaced", "tight"}

RECURSIVE Render(_, _)
Render(tokens, style) ==
    IF Len(tokens) <= 1 THEN Concat(tokens)
    ELSE LET sep == IF style = "spaced" \/ (IsRefTok(tokens[1]) /\ IsRefTok(tokens[2]))
                    THEN <<" ">> ELSE <<>>
         IN  tokens[1] \o sep \o Render(Tail(tokens), style)

ArrayText(tokens, style) == Render(<<OpenTok>> \o tokens \o <<CloseTok>>, style)

Group(g, name) == [xref |-> GroupXrefs[g], name |-> ParenName(name)]

\* layer_ui_configs(): one entry per group, numbered from 0
LayersOf(groups) ==
    [p \in 1..Len(groups) |-> [number |-> p - 1, text |-> StripParens(groups[p].name)]]

RefsOf(groups) == [p \in 1..Len(groups) |-> Ref(groups[p].xref)]

\* the document with this /OCGs, this /Order and this placement
OcPropsOf(config, ocgs, order) ==
    [ocp |-> config.ocp, d |-> config.d,
     arr |-> [k \in ArrayKeys |->
                 CASE k = "OCGs" /\ config.ocp # "absent" -> ocgs
                   [] k = "Order" /\ config.d # "absent" -> order
                   [] OTHER -> NullText]]

\* the text of an array the engine holds
TextOf(array, style) ==
    IF array.present THEN ArrayText(array.tokens, style) ELSE NullText

\* the document with these groups and these arrays of /D
OcPropsWith(config, doc, order) ==
    [ocp |-> config.ocp, d |-> config.d,
     arr |-> [k \in ArrayKeys |->
                 CASE k = "OCGs" /\ config.ocp # "absent" ->
                          ArrayText(RefsOf(doc.groups), doc.style)
                   [] k = "Order" /\ config.d # "absent" -> TextOf(order, doc.style)
                   [] k = "ON" /\ config.d # "absent" -> TextOf(doc.on, doc.style)
                   [] k = "OFF" /\ config.d # "absent" -> TextOf(doc.off, doc.style)
                   [] OTHER -> NullText]]

DistinctGroups == [g \in 1..MaxGroups |-> Group(g, GroupNames[g])]

TokenSeqs(refs) ==
    {t \in UNION {[1..n -> {OpenTok, CloseTok} \cup refs] : n \in 0..MaxTokens} : WellFormed(t)}

UnknownXref == 9

\* a reference the document has no object for, with a number that ends with
\* the digits of a group's
DanglingXref == 125

Pieces == {OpenTok, CloseTok, <<" ">>, Ref(GroupXrefs[1]), Ref(GroupXrefs[2]),
           Ref(UnknownXref), <<"5">>, <<"R">>}

(***************************************************************************)
(* The text edits of addOCGWithParent, setLayerVisibility and deleteOCG.   *)
(***************************************************************************)

\* each character of a text with the one before it and the one after it
\* ("": none)
Context(s) ==
    [k \in 1..Len(s) |->
        [before |-> IF k = 1 THEN "" ELSE s[k - 1],
         at |-> s[k],
         after |-> IF k = Len(s) THEN "" ELSE s[k + 1]]]

Chars(cs) == [k \in 1..Len(cs) |-> cs[k].at]

RunsOn(c) == ~(IsSpace(c.at) /\ IsSpace(c.before))

AfterOpen(c) == ~(c.at = " " /\ c.before = "[")

BeforeClose(c) == ~(c.at = " " /\ c.after = "]")

\* the number of "[" not yet closed before position k of a text
DepthAt(s, k) ==
    Cardinality({m \in 1..(k - 1) : s[m] = "["})
    - Cardinality({m \in 1..(k - 1) : s[m] = "]"})

\* 539-542: chunk.startswith(c_ref), then the end of the text, ' ' or ']'
ChildAt(s, k, c_ref) ==
    /\ startswith(From(s, k), c_ref)
    /\ \/ k + Len(c_ref) = Len(s) + 1
       \/ s[k + Len(c_ref)] \in {" ", "]"}

\* 516-553, STEP 1: the loop copies every character up to the first position
\* outside a bracket character where depth is 1 and the child's reference
\* starts, skips the reference and the whitespace after it, and copies the
\* rest (removed is then True)
RemoveChild(order_string, c_ref) ==
    LET at == {k \in 1..Len(order_string) :
                  /\ order_string[k] \notin {"[", "]"}
                  /\ DepthAt(order_string, k) = 1
                  /\ ChildAt(order_string, k, c_ref)}
        k == CHOOSE m \in at : \A n \in at : m <= n
    IN  IF at = {} THEN order_string
        ELSE Slice(order_string, 1, k)
             \o From(order_string, Span(order_string, k + Len(c_ref), SpaceChars))

\* the first "]" after position i, whatever opens before it
MatchingCloseUncounted(s, i) ==
    LET closes == {m \in (i + 1)..Len(s) : s[m] = "]"}
    IN  IF closes = {} THEN 0 ELSE CHOOSE m \in closes : \A k \in closes : m <= k

\* 582-590: the bracket that closes the one at position i, 0 when none does
MatchingClose(s, i) ==
    LET level(m) == 1 + Cardinality({k \in (i + 1)..m : s[k] = "["})
                      - Cardinality({k \in (i + 1)..m : s[k] = "]"})
        closes == {m \in (i + 1)..Len(s) : level(m) = 0}
    IN  IF closes = {} THEN 0 ELSE CHOOSE m \in closes : \A k \in closes : m <= k

\* 560-605, STEP 2
InsertUnderParent(final_order, p_ref, c_ref) ==
    LET p_idx == find(final_order, p_ref)
        scan_idx == p_idx + Len(p_ref)
        next_char_idx == Span(final_order, scan_idx, SpaceChars)
        is_existing_array == next_char_idx <= Len(final_order)
                             /\ final_order[next_char_idx] = "["
        close == MatchingClose(final_order, next_char_idx)
    IN  IF p_idx = 0 THEN final_order
        ELSE IF is_existing_array
        THEN IF close = 0 THEN final_order
             ELSE Slice(final_order, 1, close) \o <<" ">> \o c_ref \o From(final_order, close)
        ELSE Slice(final_order, 1, scan_idx) \o <<" ", "[">> \o c_ref \o <<"]">>
             \o From(final_order, scan_idx)

\* 508-607
modify_pdf_order(order_string, p_ref, c_ref) ==
    IF order_string = <<>> THEN order_string
    ELSE InsertUnderParent(RemoveChild(order_string, c_ref), p_ref, c_ref)

\* re.match(r'\s*' + str(x) + r'\s+0\s+R', s[k:]): the end (exclusive) of the
\* match, 0 when there is none
RemovalEnd(s, k, x) ==
    LET a == Span(s, k, SpaceChars)
        b == a + Len(str(x))
        w == Span(s, b, SpaceChars)
        v == Span(s, w + 1, SpaceChars)
    IN  IF /\ b <= Len(s) + 1 /\ Slice(s, a, b) = str(x)
           /\ w > b /\ w <= Len(s) /\ s[w] = "0"
           /\ v > w + 1 /\ v <= Len(s) /\ s[v] = "R"
        THEN v + 1 ELSE 0

\* re.sub(r'\s*' + str(x) + r'\s+0\s+R', '', s) from position i on
RECURSIVE remove_xref_from(_, _, _)
remove_xref_from(s, i, x) ==
    LET at == {k \in i..Len(s) : RemovalEnd(s, k, x) # 0}
        k == CHOOSE m \in at : \A n \in at : m <= n
    IN  IF at = {} THEN From(s, i)
        ELSE Slice(s, i, k) \o remove_xref_from(s, RemovalEnd(s, k, x), x)

\* 766-769
remove_xref_from_array(arr_str, xref_to_remove) ==
    remove_xref_from(arr_str, 1, xref_to_remove)

\* s.rstrip(']')
rstrip(s) ==
    LET ends == {j \in 0..Len(s) : \A k \in (j + 1)..Len(s) : s[k] = "]"}
    IN  SubSeq(s, 1, CHOOSE j \in ends : \A m \in ends : j <= m)

\* 663-670
add_to_array(arr_str, xref_ref) ==
    IF arr_str = <<>> \/ arr_str = NullText THEN <<"[">> \o xref_ref \o <<"]">>
    ELSE IF contains(arr_str, xref_ref) THEN arr_str
    ELSE rstrip(arr_str) \o <<" ">> \o xref_ref \o <<"]">>

\* 679: re.sub(r'\s+', ' ', result)
OneSpace(s) == Chars(SelectSeq(Context(s), RunsOn))

\* 680: result.replace('[ ', '[').replace(' ]', ']')
Tighten(s) ==
    Chars(SelectSeq(Context(Chars(SelectSeq(Context(s), AfterOpen))), BeforeClose))

\* 672-681
remove_from_array(arr_str, ocgXref) ==
    IF arr_str = <<>> \/ arr_str = NullText THEN arr_str
    ELSE Tighten(OneSpace(remove_xref_from(arr_str, 1, ocgXref)))

(***************************************************************************)
(* addOCGWithParent, setLayerVisibility, deleteOCG: each is one call of    *)
(* runPython, one step.  ocCall records the call: the (object number, key  *)
(* path) of every xref_get_key and xref_set_key it issued, in order, the   *)
(* document as the call found it and as add_ocg left it, the ordering text  *)
(* after step 1 of modify_pdf_order (cleaned_order), and how it ended.     *)
(***************************************************************************)
NewName == "N"

Read(xref, path) == [xref |-> xref, path |-> path]

Write(xref, path, value) == [xref |-> xref, path |-> path, value |-> value]

\* a place: the reads that led to it, the object number and the key path
\* found (xref 0: None)
Place(reads, xref, path) == [reads |-> reads, xref |-> xref, path |-> path]

\* the writes applied to the document one after the other
RECURSIVE Written(_, _)
Written(oc, writes) ==
    IF writes = <<>> THEN oc
    ELSE Written(xref_set_key(oc, writes[1].xref, writes[1].path, writes[1].value),
                 Tail(writes))

\* the record of a call; known is what getLayerConfig last returned to the
\* caller before it
OcCall(op, arg, before, created, reads, writes, outcome, result) ==
    [op |-> op, arg |-> arg, before |-> before, created |-> created, cleaned |-> <<>>,
     reads |-> reads, writes |-> writes, outcome |-> outcome, result |-> result,
     known |-> IF layerCall.pc = "done" THEN layerCall.result ELSE <<>>]

\* add_ocg(name): the engine numbers the new group, lists it in /OCGs, in the
\* root of /Order and in /ON, making /OCProperties and /D where there is none
add_ocg(oc, doc, child_xref) ==
    LET arr(tokens) == ArrayText(tokens \o <<Ref(child_xref)>>, doc.style)
    IN  [ocp |-> IF oc.ocp = "absent" THEN "inline" ELSE oc.ocp,
         d |-> IF oc.d = "absent" THEN "inline" ELSE oc.d,
         arr |-> [k \in ArrayKeys |->
                     CASE k = "OCGs" -> arr(RefsOf(doc.groups))
                       [] k = "Order" -> arr(doc.tokens)
                       [] k = "ON" -> arr(doc.on.tokens)
                       [] OTHER -> oc.arr[k]]]

\* 472-503: where addOCGWithParent finds /Order
LocateOrderByOcp(oc) ==
    LET ocprop == xref_get_key(oc, CatalogXref, <<"OCProperties">>)
        ocprop_xref == ReferenceIn(ocprop.v)
        d == xref_get_key(oc, ocprop_xref, <<"D">>)
        d_xref == ReferenceIn(d.v)
        r0 == <<Read(CatalogXref, <<"OCProperties">>)>>
        r1 == Append(r0, Read(ocprop_xref, <<"D">>))
    IN  IF ocprop.t = "dict"
        THEN Place(Append(r0, Read(CatalogXref, <<"OCProperties", "D", "Order">>)),
                   CatalogXref, <<"OCProperties", "D", "Order">>)
        ELSE IF ocprop.t # "null" /\ ocprop_xref # 0
        THEN IF d.t = "dict"
             THEN Place(Append(r1, Read(ocprop_xref, <<"D", "Order">>)),
                        ocprop_xref, <<"D", "Order">>)
             ELSE IF d.t # "null" /\ d_xref # 0
             THEN Place(Append(r1, Read(d_xref, <<"Order">>)), ocprop_xref, <<"D", "Order">>)
             ELSE Place(r1, 0, <<>>)
        ELSE Place(r0, 0, <<>>)

LocateOrder(oc) ==
    LET ocprop == xref_get_key(oc, CatalogXref, <<"OCProperties">>)
        ocprop_xref == ReferenceIn(ocprop.v)
        d == xref_get_key(oc, ocprop_xref, <<"D">>)
        d_xref == ReferenceIn(d.v)
        r0 == <<Read(CatalogXref, <<"OCProperties">>)>>
        r1 == Append(r0, Read(ocprop_xref, <<"D">>))
    IN  IF ocprop.t = "dict"
        THEN Place(Append(r0, Read(CatalogXref, <<"OCProperties", "D", "Order">>)),
                   CatalogXref, <<"OCProperties", "D", "Order">>)
        ELSE IF ocprop.t # "null" /\ ocprop_xref # 0
        THEN IF d.t = "dict"
             THEN Place(Append(r1, Read(ocprop_xref, <<"D", "Order">>)),
                        ocprop_xref, <<"D", "Order">>)
             ELSE IF d.t # "null" /\ d_xref # 0
             THEN Place(Append(r1, Read(d_xref, <<"Order">>)), d_xref, <<"Order">>)
             ELSE Place(r1, 0, <<>>)
        ELSE Place(r0, 0, <<>>)

\* the document with the group the engine has just made
WithNewGroup(doc, child_xref) ==
    [doc EXCEPT !.groups = Append(@, [xref |-> child_xref, name |-> ParenName(NewName)]),
                !.layers = Append(@, [number |-> Len(doc.layers), text |-> <<NewName>>]),
                !.tokens = Append(@, Ref(child_xref)),
                !.on = Present(Append(@.tokens, Ref(child_xref)))]

\* the object numbers the engine can give a new object: it numbers it after
\* the last object of the document
NewXrefs(doc) ==
    {x \in {GroupXrefs[g] : g \in 1..(MaxGroups + 1)} :
        \A g \in 1..Len(doc.groups) : doc.groups[g].xref < x}

\* 457-615: addOCGWithParent(name, parentXref).  The engine can refuse a key
\* path that runs through a reference; xref_set_key then raises and so does
\* the call.
AddOCGWithParent(parentXref) ==
    /\ ocCall.op = "none"
    /\ layerCall.pc \in {"ready", "done"}
    /\ \E child_xref \in NewXrefs(layerDoc), accepted \in BOOLEAN :
       \E created \in {add_ocg(ocProps, layerDoc, child_xref)} :
       \E place \in {LocateOrder(created)} :
       \E order_str \in {xref_get_key(created, place.xref, place.path).v} :
       \E writes \in {IF place.xref # 0 /\ order_str # <<>>
                      THEN <<Write(place.xref, place.path,
                                   modify_pdf_order(order_str, Ref(parentXref),
                                                    Ref(child_xref)))>>
                      ELSE <<>>} :
       LET refused == writes # <<>> /\ CrossesReference(created, place.xref, place.path)
       IN  /\ accepted \/ refused
           /\ ocProps' = IF accepted THEN Written(created, writes) ELSE created
           /\ ocCall' = [OcCall("addOCGWithParent", [parentXref |-> parentXref], ocProps,
                                created, place.reads, writes,
                                IF accepted THEN "returned" ELSE "raised", child_xref)
                            EXCEPT !.cleaned = IF writes = <<>> THEN <<>>
                                               ELSE RemoveChild(order_str, Ref(child_xref))]
           /\ layerDoc' = WithNewGroup(layerDoc, child_xref)
    /\ UNCHANGED <<layerCall, frameLayers>>

\* 622-655: where setLayerVisibility finds /D
LocateD(oc) ==
    LET ocprop == xref_get_key(oc, CatalogXref, <<"OCProperties">>)
        ocprop_xref == ReferenceIn(ocprop.v)
        r0 == <<Read(CatalogXref, <<"OCProperties">>)>>
        inl == xref_get_key(oc, CatalogXref, <<"OCProperties", "D">>)
        r1 == Append(r0, Read(CatalogXref, <<"OCProperties", "D">>))
        ind == xref_get_key(oc, ocprop_xref, <<"D">>)
        r2 == Append(r0, Read(ocprop_xref, <<"D">>))
    IN  IF ocprop.t = "dict"
        THEN IF inl.t = "dict" THEN Place(r1, CatalogXref, <<"OCProperties", "D">>)
             ELSE IF inl.t # "null" /\ ReferenceIn(inl.v) # 0
             THEN Place(r1, ReferenceIn(inl.v), <<>>)
             ELSE Place(r1, 0, <<>>)
        ELSE IF ocprop.t # "null" /\ ocprop_xref # 0
        THEN IF ind.t = "dict" THEN Place(r2, ocprop_xref, <<"D">>)
             ELSE IF ind.t # "null" /\ ReferenceIn(ind.v) # 0
             THEN Place(r2, ReferenceIn(ind.v), <<>>)
             ELSE Place(r2, 0, <<>>)
        ELSE Place(r0, 0, <<>>)

\* 692, 699: on_arr if t_on != "null" else ""
ArrayOrEmpty(r) == IF r.t # "null" THEN r.v ELSE <<>>

\* 695, 702: the array the group is removed from is written unless it is
\* empty or "[]"
WriteUnlessEmpty(xref, key, value) ==
    IF value # <<>> /\ value # <<"[", "]">> THEN <<Write(xref, key, value)>> ELSE <<>>

\* 617-705: setLayerVisibility(ocgXref, on)
SetLayerVisibility(ocgXref, on) ==
    /\ ocCall.op = "none"
    /\ layerCall.pc \in {"ready", "done"}
    /\ \E place \in {LocateD(ocProps)} :
       \E on_key \in {place.path \o <<"ON">>}, off_key \in {place.path \o <<"OFF">>} :
       \E on_arr \in {ArrayOrEmpty(xref_get_key(ocProps, place.xref, on_key))} :
       \E off_arr \in {ArrayOrEmpty(xref_get_key(ocProps, place.xref, off_key))} :
       \E writes \in {IF on
                      THEN <<Write(place.xref, on_key, add_to_array(on_arr, Ref(ocgXref)))>>
                           \o WriteUnlessEmpty(place.xref, off_key,
                                               remove_from_array(off_arr, ocgXref))
                      ELSE <<Write(place.xref, off_key, add_to_array(off_arr, Ref(ocgXref)))>>
                           \o WriteUnlessEmpty(place.xref, on_key,
                                               remove_from_array(on_arr, ocgXref))} :
       LET reads == place.reads \o <<Read(place.xref, on_key), Read(place.xref, off_key)>>
       IN  IF place.xref = 0
           THEN /\ ocCall' = OcCall("setLayerVisibility", [ocgXref |-> ocgXref, on |-> on],
                                    ocProps, ocProps, place.reads, <<>>, "raised", 0)
                /\ UNCHANGED ocProps
           ELSE /\ ocCall' = OcCall("setLayerVisibility", [ocgXref |-> ocgXref, on |-> on],
                                    ocProps, ocProps, reads, writes, "returned", 0)
                /\ ocProps' = Written(ocProps, writes)
    /\ UNCHANGED <<layerDoc, layerCall, frameLayers>>

\* 790, 803: for key in ["ON", "OFF", "Order"]
DKeysWithoutOrder == <<"ON", "OFF">>

DKeys == <<"ON", "OFF", "Order">>

\* 790-797, 803-810: the loop over the arrays of /D found at (d_xref, prefix);
\* st is [oc, reads, writes]
RECURSIVE RemoveFromD(_, _, _, _, _)
RemoveFromD(st, d_xref, prefix, keys, target_xref) ==
    IF keys = <<>> THEN st
    ELSE LET path == prefix \o <<Head(keys)>>
             r == xref_get_key(st.oc, d_xref, path)
             w == Write(d_xref, path, remove_xref_from_array(r.v, target_xref))
             reads == Append(st.reads, Read(d_xref, path))
         IN  RemoveFromD(
                 IF r.t # "null" /\ r.v # <<>>
                 THEN [oc |-> xref_set_key(st.oc, d_xref, path, w.value),
                       reads |-> reads, writes |-> Append(st.writes, w)]
                 ELSE [st EXCEPT !.reads = reads],
                 d_xref, prefix, Tail(keys), target_xref)

\* 717-812: deleteOCG(layerNumber)
DeleteOCG(layerNumber) ==
    /\ ocCall.op = "none"
    /\ layerCall.pc \in {"ready", "done"}
    /\ \E ocprop \in {xref_get_key(ocProps, CatalogXref, <<"OCProperties">>)} :
       \E is_inline \in {ocprop.t = "dict"} :
       \E ocprop_xref \in {IF is_inline THEN CatalogXref ELSE ReferenceIn(ocprop.v)} :
       \E prefix \in {IF is_inline THEN <<"OCProperties">> ELSE <<>>} :
       \E ocgs \in {xref_get_key(ocProps, ocprop_xref, prefix \o <<"OCGs">>)} :
       \E ocg_xrefs \in {findall(ocgs.v, 1)} :
       \E target_xref \in {IF layerNumber < 0 \/ layerNumber >= Len(ocg_xrefs)
                           THEN layerNumber ELSE ocg_xrefs[layerNumber + 1]} :
       \E w1 \in {Write(ocprop_xref, prefix \o <<"OCGs">>,
                        remove_xref_from_array(ocgs.v, target_xref))} :
       \E oc1 \in {xref_set_key(ocProps, w1.xref, w1.path, w1.value)} :
       \E d \in {xref_get_key(oc1, ocprop_xref, prefix \o <<"D">>)} :
       LET r0 == <<Read(CatalogXref, <<"OCProperties">>)>>
           r1 == Append(r0, Read(ocprop_xref, prefix \o <<"OCGs">>))
           r2 == Append(r1, Read(ocprop_xref, prefix \o <<"D">>))
           st == [oc |-> oc1, reads |-> r2, writes |-> <<w1>>]
           arg == [layerNumber |-> layerNumber]
       IN  \E done \in {IF d.t = "dict"
                        THEN RemoveFromD(st, ocprop_xref, prefix \o <<"D">>, DKeys, target_xref)
                        ELSE IF d.t # "null" /\ ReferenceIn(d.v) # 0
                        THEN RemoveFromD(st, ReferenceIn(d.v), <<>>, DKeys, target_xref)
                        ELSE st} :
           IF ~is_inline /\ ocprop_xref = 0
           THEN /\ ocCall' = OcCall("deleteOCG", arg, ocProps, ocProps, r0, <<>>, "raised", 0)
                /\ UNCHANGED ocProps
           ELSE IF ocgs.t = "null" \/ ocgs.v = <<>>
           THEN /\ ocCall' = OcCall("deleteOCG", arg, ocProps, ocProps, r1, <<>>, "raised", 0)
                /\ UNCHANGED ocProps
           ELSE /\ ocCall' = OcCall("deleteOCG", arg, ocProps, ocProps, done.reads,
                                    done.writes, "returned", target_xref)
                /\ ocProps' = done.oc
    /\ UNCHANGED <<layerDoc, layerCall, frameLayers>>


(***************************************************************************)
(* Strings of the caller put into the generated Python code.  A string is  *)
(* a sequence of characters; the code is the text of a string literal.     *)
(***************************************************************************)
MaxChars == 3

\* a character with no meaning after a backslash, the backslash, the quote
Characters == {"q", "\\", "\""}

Strings == UNION {[1..n -> Characters] : n \in 0..MaxChars}

\* text.replace(/"/g, '\\"') inside a template literal: every quote becomes
\* a backslash and a quote
RECURSIVE EscapeQuotes(_)
EscapeQuotes(text) ==
    IF text = << >> THEN << >>
    ELSE (IF Head(text) = "\"" THEN <<"\\", "\"">> ELSE <<Head(text)>>)
         \o EscapeQuotes(Tail(text))

\* "${...}": the escaped text between two quotes
Interpolated(text) == <<"\"">> \o EscapeQuotes(text) \o <<"\"">>

\* the interpreter reads a string literal from position i of the code, after
\* the opening quote: a backslash takes the next character with it (\\ is a
\* backslash, \" a quote, \q stays as it is), a quote ends the literal
RECURSIVE ReadLiteral(_, _, _)
ReadLiteral(code, i, value) ==
    IF i > Len(code) THEN [ok |-> FALSE, value |-> value, end |-> i]
    ELSE IF code[i] = "\"" THEN [ok |-> TRUE, value |-> value, end |-> i]
    ELSE IF code[i] = "\\"
    THEN IF i + 1 > Len(code) THEN [ok |-> FALSE, value |-> value, end |-> i]
         ELSE ReadLiteral(code, i + 2,
                          value \o (IF code[i + 1] \in {"\\", "\""}
                                    THEN <<code[i + 1]>> ELSE <<"\\", code[i + 1]>>))
    ELSE ReadLiteral(code, i + 1, Append(value, code[i]))

InterpolatingOps == {"addOCG", "addOCGWithParent", "searchFor", "setFormField"}

\* document.ts 451-453, 468, 238 and part_001 82: the string is escaped, put
\* between quotes into the code and the interpreter runs the code
Interpolate(op, text) ==
    /\ literal' = [op |-> op, text |-> text, emitted |-> Interpolated(text),
                   read |-> ReadLiteral(Interpolated(text), 2, << >>)]

(***************************************************************************)
(* PyMuPDFPage: a page handle holds the document's runPython, its variable *)
(* name and a page number.                                                 *)
(***************************************************************************)
PageOps == {"rect", "getText", "setRotation"}

\* part_001 26-39: the handle getPage(index) makes when it returns one
GetPageHandle(index) ==
    /\ GetPage(index)
    /\ pageHandles' = IF GetPageResult(index).outcome = "ok"
                      THEN pageHandles \cup {index} ELSE pageHandles

\* 87-93: the handle a step of pages() yields
PagesNextHandle ==
    /\ PagesNext
    /\ pageHandles' = IF gen'.st = "yield" THEN pageHandles \cup {gen'.i} ELSE pageHandles

\* 108-114: the handle insertBlankPage returns
InsertBlankPageHandle(index) ==
    /\ InsertBlankPage(index)
    /\ pageHandles' = IF lastOp'.outcome = "ok" THEN pageHandles \cup {index} ELSE pageHandles

\* part_001 41-70: a page operation hands its code to the runPython it was
\* given, document.ts 80 and 29-31: `(code) => this.runPython(code)`, which
\* runs it.  The engine raises for a document that is closed and for a page
\* number the document does not have.
PageOperation(op, pageNumber, raises) ==
    /\ pageNumber \in pageHandles
    /\ lastOp' = OpRec(op, closed,
                       IF engineOpen /\ ValidIndex(pageNumber, Len(docPages)) /\ ~raises
                       THEN "ok" ELSE "engineError",
                       1, << >>, << >>, << >>, << >>)
    /\ UNCHANGED <<closed, docPages, engineOpen, inputFile, closeCalls, closeAttempts,
                   unlinkAttempts, gen, pageHandles>>

(***************************************************************************)
(* The facade operations that open document handles themselves: merge,     *)
(* split, renderPage, extractText (pdfToHtml, pdfToJson, pdfToXml and      *)
(* pdfToSvg have extractText's shape).  A handle is the number open() or   *)
(* create() took from docCounter; `open` holds the handles not yet closed, *)
(* `files` the handles whose input file /input_<id> exists.                *)
(***************************************************************************)
MaxPdfs == 3
MaxRanges == 2

\* pymupdf.ts 176-187, open(input) returned a handle
Opened(j) ==
    [j EXCEPT !.next = @ + 1, !.opened = @ \cup {j.next + 1}, !.open = @ \cup {j.next + 1},
              !.files = @ \cup {j.next + 1}]

\* 183-184: open(input) wrote the input file and pymupdf.open raised
OpenFailed(j) ==
    [j EXCEPT !.next = @ + 1, !.files = @ \cup {j.next + 1}, !.pc = "rejected"]

\* 199-207, create() returned a handle: it has no input file
Created(j) ==
    [j EXCEPT !.next = @ + 1, !.opened = @ \cup {j.next + 1}, !.open = @ \cup {j.next + 1}]

\* document.ts 814-822, close() on the handle id: the unlink runs when the
\* engine's close did not raise
Closed(j, id, raises) ==
    [j EXCEPT !.open = @ \ {id}, !.files = IF raises THEN @ ELSE @ \ {id}]

Rejected(j) == [j EXCEPT !.pc = "rejected"]

\* the handle the call opened first: merge's result, split's source
FirstHandle(j) == CHOOSE id \in j.opened : \A other \in j.opened : id <= other

\* 308-311: merge(pdfs) with n inputs
MergeCall(n) ==
    /\ job.pc = "idle"
    /\ job' = [NoJob EXCEPT !.kind = "merge", !.n = n,
                            !.pc = IF n = 0 THEN "rejected" ELSE "openFirst"]

\* 313: const result = await this.open(pdfs[0])
MergeOpenFirst(raises) ==
    /\ job.kind = "merge" /\ job.pc = "openFirst"
    /\ job' = IF raises THEN OpenFailed(job)
              ELSE [Opened(job) EXCEPT !.i = 1, !.pc = IF job.n > 1 THEN "openNext" ELSE "finish"]

\* 314-318: one turn of the loop
MergeTurn(openRaises, insertRaises, closeRaises) ==
    /\ job.kind = "merge" /\ job.pc = "openNext"
    /\ job' = IF openRaises THEN OpenFailed(job)
              ELSE IF insertRaises THEN Rejected(Opened(job))
              ELSE [Closed(Opened(job), job.next + 1, closeRaises) EXCEPT
                       !.i = @ + 1,
                       !.pc = IF job.i + 1 < job.n THEN "openNext" ELSE "finish"]

\* 319-321
MergeFinish(saveRaises, closeRaises) ==
    /\ job.kind = "merge" /\ job.pc = "finish"
    /\ job' = IF saveRaises THEN Rejected(job)
              ELSE [Closed(job, FirstHandle(job), closeRaises) EXCEPT
                       !.pc = "resolved", !.results = <<"merged">>]

\* split(pdf, ranges) on a PDF of the given pages
SplitCall(source, ranges) ==
    /\ job.pc = "idle"
    /\ job' = [NoJob EXCEPT !.kind = "split", !.source = source, !.ranges = ranges,
                            !.pc = "openSource"]

\* 325-327: the source is opened and its page count read
SplitOpen(raises) ==
    /\ job.kind = "split" /\ job.pc = "openSource"
    /\ job' = IF raises THEN OpenFailed(job)
              ELSE [Opened(job) EXCEPT !.pageCount = Len(job.source), !.counted = 1,
                                       !.i = 1, !.pc = "ranges"]

\* 330: Math.max(0, range.start)
ClampStart(start) == IF start < 0 THEN 0 ELSE start

\* 331: Math.min(pageCount - 1, range.end)
ClampEnd(pageCount, end) == IF end > pageCount - 1 THEN pageCount - 1 ELSE end

\* a test that also drops the ranges of one page
SkippedOrSingle(start, end) == start >= end

\* 332: if (start > end) continue
Skipped(start, end) == start > end

\* document.ts 146-154, insert_pdf(source, from_page, to_page) into an empty
\* document, for 0 <= from_page <= to_page < page count
insert_pdf(source, from_page, to_page) == SubSeq(source, from_page + 1, to_page + 1)

\* 329-338: one turn of the loop; raises: "no", or the step that raised
SplitTurn(raises, closeRaises) ==
    /\ job.kind = "split" /\ job.pc = "ranges" /\ job.i <= Len(job.ranges)
    /\ LET start == ClampStart(job.ranges[job.i].start)
           end == ClampEnd(job.pageCount, job.ranges[job.i].end)
           turned == [job EXCEPT !.i = @ + 1]
       IN  job' = IF Skipped(start, end) THEN turned
                  ELSE IF raises = "create" THEN Rejected([turned EXCEPT !.next = @ + 1])
                  ELSE IF raises \in {"insert", "save"} THEN Rejected(Created(turned))
                  ELSE [Closed(Created(turned), job.next + 1, closeRaises) EXCEPT
                           !.results = Append(@, insert_pdf(job.source, start, end))]

\* 340-341
SplitFinish(closeRaises) ==
    /\ job.kind = "split" /\ job.pc = "ranges" /\ job.i > Len(job.ranges)
    /\ job' = [Closed(job, FirstHandle(job), closeRaises) EXCEPT !.pc = "resolved"]

\* renderPage(pdf, pageIndex) or extractText(pdf) on a PDF of the given pages
PageJobCall(kind, source, pageIndex) ==
    /\ job.pc = "idle"
    /\ job' = [NoJob EXCEPT !.kind = kind, !.source = source, !.pageIndex = pageIndex,
                            !.pc = "openDoc"]

\* 345, 355: const doc = await this.open(pdf)
PageJobOpen(raises) ==
    /\ job.kind \in {"renderPage", "extractText"} /\ job.pc = "openDoc"
    /\ job' = IF raises THEN OpenFailed(job) ELSE [Opened(job) EXCEPT !.pc = "pages"]

\* 356-359: getPage throws for an index out of range (document.ts 77-79),
\* toImage may raise
RenderPage(raises, closeRaises) ==
    /\ job.kind = "renderPage" /\ job.pc = "pages"
    /\ job' = IF ~ValidIndex(job.pageIndex, Len(job.source)) \/ raises THEN Rejected(job)
              ELSE [Closed(job, FirstHandle(job), closeRaises) EXCEPT
                       !.pc = "resolved", !.results = <<job.source[job.pageIndex + 1]>>]

\* 346-351: the loop over doc.pages(); a getText may raise
ExtractText(raises, closeRaises) ==
    /\ job.kind = "extractText" /\ job.pc = "pages"
    /\ job' = IF raises /\ job.source # << >> THEN Rejected(job)
              ELSE [Closed(job, FirstHandle(job), closeRaises) EXCEPT
                       !.pc = "resolved", !.results = job.source]

\* the caller has the outcome and calls again
JobReturns ==
    /\ job.pc \in {"resolved", "rejected"}
    /\ job' = NoJob

(***************************************************************************)
(* imagesToPdf builds its PDF in the interpreter's global _multi_img_pdf.  *)
(* An image is the pair <<process, position>> of the call that passed it;  *)
(* a page of the PDF is the image it was made from.                        *)
(***************************************************************************)
\* the images of a call of process p with n images
ImagesOf(p, n) == [k \in 1..n |-> <<p, k>>]

\* 456-459: imagesToPdf(images); an empty list throws before the first await
ImagesCall(p, n) ==
    /\ imgCalls[p].pc = "idle"
    /\ imgCalls' = [imgCalls EXCEPT ![p] =
                       [NoImgCall EXCEPT !.images = ImagesOf(p, n),
                                         !.pc = IF n = 0 THEN "rejected" ELSE "awaitPyodide"]]
    /\ UNCHANGED multiImgPdf

\* 461-467: after `await this.getPyodide()` the global is bound to a new
\* document, and the call waits for the bytes of the first image
ImagesStart(p) ==
    /\ imgCalls[p].pc = "awaitPyodide"
    /\ multiImgPdf' = [bound |-> TRUE, open |-> TRUE, pages |-> << >>]
    /\ imgCalls' = [imgCalls EXCEPT ![p].pc = "awaitBuf"]

\* 468-481: the bytes of image i have arrived; the script inserts the image
\* into the document the global names now, and raises when that document is
\* closed.  After the last image the final script (483-488) runs with no
\* await before it: it serialises the document the global names and closes it.
ImagesTurn(p) ==
    LET c == imgCalls[p]
        inserted == Append(multiImgPdf.pages, c.images[c.i + 1])
    IN
    /\ c.pc = "awaitBuf"
    /\ IF ~multiImgPdf.open
       THEN /\ imgCalls' = [imgCalls EXCEPT ![p].pc = "rejected"]
            /\ UNCHANGED multiImgPdf
       ELSE IF c.i + 1 < Len(c.images)
       THEN /\ imgCalls' = [imgCalls EXCEPT ![p].i = c.i + 1]
            /\ multiImgPdf' = [multiImgPdf EXCEPT !.pages = inserted]
       ELSE /\ imgCalls' = [imgCalls EXCEPT ![p].i = c.i + 1, ![p].pc = "resolved",
                                            ![p].result = inserted]
            /\ multiImgPdf' = [multiImgPdf EXCEPT !.pages = inserted, !.open = FALSE]

\* the caller has the outcome of its call
ImagesReturns(p) ==
    /\ imgCalls[p].pc \in {"resolved", "rejected"}
    /\ imgCalls' = [imgCalls EXCEPT ![p] = [NoImgCall EXCEPT !.pc = "returned"]]
    /\ UNCHANGED multiImgPdf

(***************************************************************************)
(* pdfToDocx and convertPdfToRgb.  A PDF is named by its colour space; the *)
(* PDF Ghostscript writes for it is <<"sRGB", pdf>>.                       *)
(***************************************************************************)
Pdfs == {<<"cmyk">>, <<"rgb">>, <<"gray">>}

ExitCodes == {0, 1, 255}

\* -sColorConversionStrategy=sRGB: what Ghostscript writes for a PDF
Rgb(pdf) == <<"sRGB">> \o pdf

\* a step that returns the output file whenever there is one, whatever the
\* exit status
ConvertIgnoringExit(pdf, loads, throws, exitCode, outputWritten) ==
    [settled |-> IF loads /\ ~throws /\ outputWritten THEN "returned" ELSE "threw",
     data |-> IF loads /\ ~throws /\ outputWritten THEN Rgb(pdf) ELSE << >>,
     loads |-> loads, throws |-> throws, exitCode |-> exitCode,
     outputWritten |-> outputWritten]

\* 19-97, convertPdfToRgb(pdfData): loads says loadGhostscriptWASM resolved,
\* throws that callMain threw, outputWritten that /tmp/rgb_output.pdf exists
\* after the run
convertPdfToRgb(pdf, loads, throws, exitCode, outputWritten) ==
    LET returns == loads /\ ~throws /\ exitCode = 0 /\ outputWritten
    IN  [settled |-> IF returns THEN "returned" ELSE "threw",
         data |-> IF returns THEN Rgb(pdf) ELSE << >>,
         loads |-> loads, throws |-> throws, exitCode |-> exitCode,
         outputWritten |-> outputWritten]

\* 209-216: pdfToDocx(pdf) up to `await convertPdfToRgb(pdfData)`
PdfToDocxCall(pdf) ==
    /\ docxCall.pc = "idle"
    /\ docxCall' = [NoDocxCall EXCEPT !.pc = "awaitRgb", !.pdf = pdf]

\* the colour conversion settles
ConvertSettles(loads, throws, exitCode, outputWritten) ==
    /\ docxCall.pc = "awaitRgb"
    /\ docxCall' = [docxCall EXCEPT
                       !.pc = "settledRgb",
                       !.step = convertPdfToRgb(docxCall.pdf, loads, throws, exitCode,
                                                outputWritten)]

\* 215-305: the try takes the step's data, the catch keeps pdfData; the bytes
\* are written to /input.pdf and the converter runs (raises: it raised)
PdfToDocxConverts(raises) ==
    /\ docxCall.pc = "settledRgb"
    /\ docxCall' = [docxCall EXCEPT
                       !.converted = IF docxCall.step.settled = "returned"
                                     THEN docxCall.step.data ELSE docxCall.pdf,
                       !.ran = TRUE,
                       !.pc = IF raises THEN "rejected" ELSE "resolved"]

\* the caller has the outcome and calls again
PdfToDocxReturns ==
    /\ docxCall.pc \in {"resolved", "rejected"}
    /\ docxCall' = NoDocxCall

(***************************************************************************)
(* Temporary entries of the interpreter's virtual filesystem               *)
(* (src/src/pymupdf.ts).  A facade call runs from one await to the next    *)
(* without interruption; between two awaits of one call the steps of       *)
(* other calls may run.  An entry is a pair <<name, number>>: the name the *)
(* code writes and the number it appends to it (0 when it appends none).   *)
(***************************************************************************)
\* The methods that take a number from docCounter, write one input entry,
\* run one script and unlink the entry.
TempKinds == {"convertToPdf", "repairPdf", "pdfToMarkdown", "pdfToLlmChunks",
              "pdfToLlamaIndex", "rasterizePdf", "compressPdf"}

Kinds == TempKinds \cup {"open", "create", "pdfToDocx", "imagesToPdf"}

\* const inputPath = `/..._input_${docId}`
InputPath(kind, docId) ==
    CASE kind = "convertToPdf"    -> <<"/convert_input_", docId>>
      [] kind = "repairPdf"       -> <<"/repair_input_", docId>>
      [] kind = "pdfToMarkdown"   -> <<"/md_input_", docId>>
      [] kind = "pdfToLlmChunks"  -> <<"/llm_input_", docId>>
      [] kind = "pdfToLlamaIndex" -> <<"/llama_input_", docId>>
      [] kind = "rasterizePdf"    -> <<"/rasterize_input_", docId>>
      [] kind = "compressPdf"     -> <<"/compress_input_", docId>>
      [] kind = "open"            -> <<"/input_", docId>>
      [] kind = "create"          -> <<"/input_", docId>>

DocxInput == <<"/input.pdf", 0>>
DocxOutput == <<"/output.docx", 0>>
MultiImg(i) == <<"/multi_img_", i>>
TmpInsertImg == <<"/tmp_insert_img", 0>>

NoCall == [kind |-> "none", pc |-> "idle", id |-> 0, docId |-> 0, mine |-> {},
           i |-> 0, n |-> 0, left |-> {}]

FsIdle ==
    /\ docCounter = 0
    /\ fs = {}
    /\ calls = [p \in Procs |-> NoCall]
    /\ handles = {}
    /\ used = {}
    /\ callSeq = 0

\* A call settles: `left` is what it wrote and is still there.
Settled(c, how, files) == [c EXCEPT !.pc = how, !.left = c.mine \cap files]

Uses(c, names) == {[call |-> c.id, name |-> nm] : nm \in names}

\* A facade method is called and suspends at `await this.getPyodide()`;
\* imagesToPdf([]) throws before that (457-459).
CallFacade(p, kind, n) ==
    /\ calls[p].pc = "idle"
    /\ callSeq < MaxFsCalls
    /\ callSeq' = callSeq + 1
    /\ calls' = [calls EXCEPT ![p] =
                   [NoCall EXCEPT !.kind = kind, !.id = callSeq + 1, !.n = n,
                                  !.pc = IF kind = "imagesToPdf" /\ n = 0
                                         THEN "rejected" ELSE "awaitPyodide"]]
    /\ UNCHANGED <<docCounter, fs, handles, used>>

\* The call resumes with the interpreter: up to its next await.
AfterGetPyodide(p, raises) ==
    LET c == calls[p] IN
    /\ c.pc = "awaitPyodide"
    /\ IF c.kind \in TempKinds \cup {"open"}
       THEN \* const docId = ++this.docCounter; ... await x.arrayBuffer()
            /\ docCounter' = docCounter + 1
            /\ calls' = [calls EXCEPT ![p] = [c EXCEPT !.docId = docCounter + 1, !.pc = "awaitBuf"]]
            /\ UNCHANGED <<fs, handles, used>>
       ELSE IF c.kind = "create"
       THEN \* create() (199-207): no await follows, no entry is written
            /\ docCounter' = docCounter + 1
            /\ calls' = [calls EXCEPT ![p] =
                           Settled([c EXCEPT !.docId = docCounter + 1],
                                   IF raises THEN "rejected" ELSE "resolved", fs)]
            /\ handles' = IF raises THEN handles
                          ELSE handles \cup {[id |-> docCounter + 1, call |-> c.id]}
            /\ UNCHANGED <<fs, used>>
       ELSE IF c.kind = "pdfToDocx"
       THEN \* await pdf.arrayBuffer() (211)
            /\ calls' = [calls EXCEPT ![p] = [c EXCEPT !.pc = "awaitBuf"]]
            /\ UNCHANGED <<docCounter, fs, handles, used>>
       ELSE \* imagesToPdf (461-467): `_multi_img_pdf = pymupdf.open()`, first image awaited
            /\ calls' = [calls EXCEPT ![p] =
                           IF raises THEN Settled(c, "rejected", fs)
                           ELSE [c EXCEPT !.pc = "awaitImg"]]
            /\ UNCHANGED <<docCounter, fs, handles, used>>
    /\ UNCHANGED callSeq

\* The input bytes have arrived: writeFile, runPython, unlink, return.
\* `raises`: the script raised.
AfterArrayBuffer(p, raises) ==
    LET c == calls[p]
        path == InputPath(c.kind, c.docId)
    IN
    /\ c.pc = "awaitBuf"
    /\ IF c.kind \in TempKinds
       THEN /\ fs' = IF raises THEN fs \cup {path} ELSE fs \ {path}
            /\ calls' = [calls EXCEPT ![p] =
                           Settled([c EXCEPT !.mine = {path}],
                                   IF raises THEN "rejected" ELSE "resolved", fs')]
            /\ used' = used \cup Uses(c, {path})
            /\ UNCHANGED <<docCounter, handles>>
       ELSE IF c.kind = "open"
       THEN \* open() (183-187): the entry stays for the handle
            /\ fs' = fs \cup {path}
            /\ calls' = [calls EXCEPT ![p] =
                           Settled([c EXCEPT !.mine = {path}],
                                   IF raises THEN "rejected" ELSE "resolved", fs')]
            /\ handles' = IF raises THEN handles
                          ELSE handles \cup {[id |-> c.docId, call |-> c.id]}
            /\ used' = used \cup Uses(c, {path})
            /\ UNCHANGED docCounter
       ELSE \* pdfToDocx (216): await convertPdfToRgb(pdfData)
            /\ calls' = [calls EXCEPT ![p] = [c EXCEPT !.pc = "awaitGs"]]
            /\ UNCHANGED <<docCounter, fs, handles, used>>
    /\ UNCHANGED callSeq

\* pdfToDocx after the colour conversion has settled (217-305): the input
\* is written, the converter runs, the output is read and both entries are
\* unlinked.  `raises`: the converter script raised; `outputWritten`: it
\* had created /output.docx before it raised.
AfterGhostscript(p, raises, outputWritten) ==
    LET c == calls[p]
        written == IF raises /\ ~outputWritten THEN {DocxInput} ELSE {DocxInput, DocxOutput}
    IN
    /\ c.pc = "awaitGs"
    /\ (~raises => outputWritten)
    /\ fs' = IF raises THEN fs \cup written ELSE fs \ written
    /\ calls' = [calls EXCEPT ![p] =
                   Settled([c EXCEPT !.mine = written],
                           IF raises THEN "rejected" ELSE "resolved", fs')]
    /\ used' = used \cup Uses(c, written)
    /\ UNCHANGED <<docCounter, handles>>
    /\ UNCHANGED callSeq

\* imagesToPdf, one turn of the loop (467-481) and, after the last image,
\* the final script (483-495).  `raises`: the script of this turn raised.
AfterImageBuffer(p, raises) ==
    LET c == calls[p]
        path == MultiImg(c.i)
        d == [c EXCEPT !.mine = @ \cup {path}, !.i = @ + 1]
    IN
    /\ c.pc = "awaitImg"
    /\ fs' = IF raises THEN fs \cup {path} ELSE fs \ {path}
    /\ calls' = [calls EXCEPT ![p] =
                   IF raises THEN Settled(d, "rejected", fs')
                   ELSE IF d.i < d.n THEN d
                   ELSE Settled(d, "resolved", fs')]
    /\ used' = used \cup Uses(c, {path})
    /\ UNCHANGED <<docCounter, handles>>
    /\ UNCHANGED callSeq

\* The final script of imagesToPdf raises.
ImagesFinalRaises(p) ==
    LET c == calls[p] IN
    /\ c.pc = "awaitImg"
    /\ c.i + 1 = c.n
    /\ fs' = fs \ {MultiImg(c.i)}
    /\ calls' = [calls EXCEPT ![p] =
                   Settled([c EXCEPT !.mine = @ \cup {MultiImg(c.i)}, !.i = @ + 1],
                           "rejected", fs')]
    /\ used' = used \cup Uses(c, {MultiImg(c.i)})
    /\ UNCHANGED <<docCounter, handles>>
    /\ UNCHANGED callSeq

\* The caller has the outcome of its call.
FacadeReturns(p) ==
    /\ calls[p].pc \in {"resolved", "rejected"}
    /\ calls' = [calls EXCEPT ![p] = NoCall]
    /\ UNCHANGED <<docCounter, fs, handles, used, callSeq>>

\* close() on an open handle (document.ts 814-822): the unlink runs when
\* the engine's close did not raise; the name is the one its open() wrote.
CloseHandle(h, raises) ==
    /\ h \in handles
    /\ handles' = handles \ {h}
    /\ fs' = IF raises THEN fs ELSE fs \ {InputPath("open", h.id)}
    /\ used' = IF raises THEN used
               ELSE used \cup {[call |-> h.call, name |-> InputPath("open", h.id)]}
    /\ UNCHANGED <<docCounter, calls, callSeq>>

\* insertImage on a page of an open handle (page.ts 166-195): the script
\* writes the image to /tmp_insert_img and nothing unlinks it.
InsertImage(h) ==
    /\ h \in handles
    /\ callSeq < MaxFsCalls
    /\ callSeq' = callSeq + 1
    /\ fs' = fs \cup {TmpInsertImg}
    /\ used' = used \cup {[call |-> callSeq + 1, name |-> TmpInsertImg]}
    /\ UNCHANGED <<docCounter, calls, handles>>

NextFs ==
    \/ \E p \in Procs, kind \in Kinds \ {"imagesToPdf"} :
           CallFacade(p, kind, 0) /\ UNCHANGED frameFs
    \/ \E p \in Procs, n \in 0..MaxImages :
           CallFacade(p, "imagesToPdf", n) /\ UNCHANGED frameFs
    \/ \E p \in Procs, raises \in BOOLEAN : AfterGetPyodide(p, raises) /\ UNCHANGED frameFs
    \/ \E p \in Procs, raises \in BOOLEAN : AfterArrayBuffer(p, raises) /\ UNCHANGED frameFs
    \/ \E p \in Procs, raises \in BOOLEAN, outputWritten \in BOOLEAN :
           AfterGhostscript(p, raises, outputWritten) /\ UNCHANGED frameFs
    \/ \E p \in Procs, raises \in BOOLEAN : AfterImageBuffer(p, raises) /\ UNCHANGED frameFs
    \/ \E p \in Procs : ImagesFinalRaises(p) /\ UNCHANGED frameFs
    \/ \E p \in Procs : FacadeReturns(p) /\ UNCHANGED frameFs
    \/ \E h \in handles, raises \in BOOLEAN : CloseHandle(h, raises) /\ UNCHANGED frameFs
    \/ \E h \in handles : InsertImage(h) /\ UNCHANGED frameFs

\* The facade with the interpreter loaded.
InitLoaded ==
    /\ pyodide = 1
    /\ pyodidePromise = 1
    /\ initPromises = <<"fulfilled">>
    /\ callPc = [c \in Callers |-> "idle"]
    /\ callPromise = [c \in Callers |-> 0]
    /\ callResult = [c \in Callers |-> 0]
    /\ callsMade = [c \in Callers |-> 0]
    /\ joinedSettled = [c \in Callers |-> "none"]
    /\ delivered = {1}

InitFsSpec == InitLoaded /\ DocIdle /\ FsIdle /\ SaveIdle /\ CompressIdle /\ LayerIdle /\ PagesIdle /\ JobIdle /\ ImagesIdle /\ DocxIdle /\ LiteralIdle

SpecFs == InitFsSpec /\ [][NextFs]_vars

\* The life of one handle: reads, iteration over pages(), single-page
\* deletion and close().
NextDoc ==
    \/ \E op \in SimpleOps, raises \in BOOLEAN : Accessor(op, raises) /\ UNCHANGED frameDoc
    \/ \E index \in Idx : GetPage(index) /\ UNCHANGED frameDoc
    \/ PagesCall /\ UNCHANGED frameDoc
    \/ PagesNext /\ UNCHANGED frameDoc
    \/ \E index \in Idx : DeletePage(index) /\ UNCHANGED frameDoc
    \/ SearchText /\ UNCHANGED frameDoc
    \/ \E raises \in BOOLEAN : Close(raises) /\ UNCHANGED frameDoc

\* The page operations of an open handle.
NextPages ==
    \/ \E index \in Idx : GetPage(index) /\ UNCHANGED frameDoc
    \/ \E index \in Idx : DeletePage(index) /\ UNCHANGED frameDoc
    \/ \E indices \in IdxSeqs : DeletePages(indices) /\ UNCHANGED frameDoc
    \/ \E index \in Idx : InsertBlankPage(index) /\ UNCHANGED frameDoc
    \/ \E from \in Idx, to \in Idx : MovePage(from, to) /\ UNCHANGED frameDoc
    \/ \E from \in Idx, to \in Idx : CopyPage(from, to) /\ UNCHANGED frameDoc
    \/ \E indices \in IdxSeqs : SelectPages(indices) /\ UNCHANGED frameDoc
    \/ \E srcLen \in 1..MaxPages : InsertPdf(srcLen) /\ UNCHANGED frameDoc

\* Page deletion alone.
NextDelete ==
    \/ \E index \in Idx : DeletePage(index) /\ UNCHANGED frameDoc
    \/ \E indices \in IdxSeqs : DeletePages(indices) /\ UNCHANGED frameDoc

InitDocSpec == InitFacade /\ InitDoc /\ FsIdle /\ SaveIdle /\ CompressIdle /\ LayerIdle /\ PagesIdle /\ JobIdle /\ ImagesIdle /\ DocxIdle /\ LiteralIdle

SpecPages == InitDocSpec /\ [][NextPages]_vars

SpecDelete == InitDocSpec /\ [][NextDelete]_vars

SpecDoc == InitDocSpec /\ [][NextDoc]_vars

\* save() on a handle that may be closed in between.
NextSave ==
    \/ \E options \in SaveOptions, raises \in BOOLEAN :
           Save(options, raises) /\ UNCHANGED frameSave
    \/ \E raises \in BOOLEAN : Close(raises) /\ UNCHANGED frameDoc

InitSaveSpec == InitFacade /\ InitDoc /\ FsIdle /\ SaveIdle /\ CompressIdle /\ LayerIdle /\ PagesIdle /\ JobIdle /\ ImagesIdle /\ DocxIdle /\ LiteralIdle

SpecSave == InitSaveSpec /\ [][NextSave]_vars

InitCompressSpec == InitLoaded /\ DocIdle /\ FsIdle /\ SaveIdle /\ InitCompress /\ LayerIdle /\ PagesIdle /\ JobIdle /\ ImagesIdle /\ DocxIdle /\ LiteralIdle

SpecCompress == InitCompressSpec /\ [][NextCompress]_vars

Init == InitFacade /\ DocIdle /\ FsIdle /\ SaveIdle /\ CompressIdle /\ LayerIdle /\ PagesIdle /\ JobIdle /\ ImagesIdle /\ DocxIdle /\ LiteralIdle

SpecInit == Init /\ [][NextInit]_vars

(***************************************************************************)
(* The specification of getLayerConfig.                                    *)
(***************************************************************************)
\* well-formed ordering arrays over groups of distinct names
InitTree ==
    \E tokens \in TokenSeqs({Ref(GroupXrefs[g]) : g \in 1..MaxGroups}),
       style \in Styles, config \in Configs :
        /\ layerDoc = Doc(DistinctGroups, LayersOf(DistinctGroups), tokens, style,
                          Absent, Absent, "tree")
        /\ ocProps = OcPropsOf(config, ArrayText(RefsOf(DistinctGroups), style),
                               ArrayText(tokens, style))

\* groups that share names
InitNames ==
    \E names \in [1..MaxGroups -> {GroupNames[1], GroupNames[2]}],
       tokens \in TokenSeqs({Ref(GroupXrefs[g]) : g \in 1..MaxGroups}) :
        /\ ~\E p \in 1..Len(tokens) : ~IsRefTok(tokens[p])
        /\ LET groups == [g \in 1..MaxGroups |-> Group(g, names[g])]
           IN  /\ layerDoc = Doc(groups, LayersOf(groups), tokens, "spaced",
                                 Absent, Absent, "names")
               /\ ocProps = OcPropsOf([ocp |-> "inline", d |-> "inline"],
                                      ArrayText(RefsOf(groups), "spaced"),
                                      ArrayText(tokens, "spaced"))

\* any text as the ordering array; /OCGs lists the two groups, or the two
\* groups and between them a number the document has no object for
InitText ==
    \E pieces \in UNION {[1..n -> Pieces] : n \in 0..MaxPieces},
       config \in {c \in Configs : c.d # "absent" /\ c.ocp = c.d},
       dangling \in BOOLEAN :
        LET groups == SubSeq(DistinctGroups, 1, 2)
            ocgs == IF dangling
                    THEN <<Ref(groups[1].xref), Ref(UnknownXref), Ref(groups[2].xref)>>
                    ELSE RefsOf(groups)
        IN  /\ layerDoc = Doc(groups, LayersOf(groups), <<>>, "spaced", Absent, Absent,
                              "text")
            /\ ocProps = OcPropsOf(config, ArrayText(ocgs, "spaced"), Concat(pieces))

LayerOthersIdle ==
    /\ InitLoaded /\ DocIdle /\ FsIdle /\ SaveIdle /\ CompressIdle /\ PagesIdle /\ JobIdle /\ ImagesIdle /\ DocxIdle /\ LiteralIdle

InitLayers ==
    /\ LayerOthersIdle
    /\ InitTree \/ InitNames \/ InitText
    /\ layerCall = [NoLayerCall EXCEPT !.pc = "ready"]
    /\ ocCall = NoOcCall

NextLayers == GetLayerConfigCall \/ ParseStep \/ GetLayerConfigReturn

SpecLayers == InitLayers /\ [][NextLayers]_vars

(***************************************************************************)
(* The documents the edits are run on, and the specifications of the       *)
(* edits.                                                                  *)
(***************************************************************************)
MaxEditTokens == 4

EditTokenSeqs(refs) == {t \in TokenSeqs(refs) : Len(t) <= MaxEditTokens}

\* orderings in which the array under the first group holds an array itself
NestedTokenSeqs(refs) ==
    {t \in {<<a, OpenTok, OpenTok, b, CloseTok, CloseTok>> : a \in refs, b \in refs} :
        WellFormed(t)}

\* the object numbers a caller passes as parent: a group, or no group
Parents(doc) == {doc.groups[g].xref : g \in 1..Len(doc.groups)} \cup {UnknownXref}

\* documents for addOCGWithParent: any ordering of the groups 5, 15, 7 or of
\* the groups 15, 7, with or without a reference to no object
InitAdd ==
    \E groups \in {DistinctGroups, SubSeq(DistinctGroups, 2, MaxGroups)},
       style \in Styles, config \in {c \in Configs : c.d # "absent" /\ c.ocp = c.d} :
        \E tokens \in EditTokenSeqs({Ref(groups[g].xref) : g \in 1..Len(groups)}
                                     \cup {Ref(DanglingXref)})
                       \cup NestedTokenSeqs({Ref(groups[g].xref) : g \in 1..Len(groups)}) :
            /\ layerDoc = Doc(groups, LayersOf(groups), tokens, style, Absent, Absent, "add")
            /\ ocProps = OcPropsWith(config, layerDoc, Present(tokens))

\* what /ON and /OFF can hold of the groups 5 and 15
Memberships ==
    {Absent} \cup {Present(t) : t \in {<<>>, <<Ref(GroupXrefs[1])>>, <<Ref(GroupXrefs[2])>>,
                                      <<Ref(GroupXrefs[2]), Ref(GroupXrefs[1])>>,
                                      <<Ref(GroupXrefs[1]), Ref(GroupXrefs[2])>>}}

\* what /Order can hold of them
Orderings ==
    {Absent, Present(RefsOf(DistinctGroups)),
     Present(<<Ref(GroupXrefs[2]), OpenTok, Ref(GroupXrefs[1]), CloseTok>>)}

\* documents for setLayerVisibility and deleteOCG
InitMembers ==
    \E on \in Memberships, off \in Memberships, order \in Orderings,
       style \in Styles, config \in Configs :
        /\ layerDoc = Doc(DistinctGroups, LayersOf(DistinctGroups), order.tokens, style,
                          on, off, "members")
        /\ ocProps = OcPropsWith(config, layerDoc, order)

InitEditCalls ==
    /\ layerCall = [NoLayerCall EXCEPT !.pc = "ready"]
    /\ ocCall = NoOcCall

InitEdit == LayerOthersIdle /\ (InitAdd \/ InitMembers) /\ InitEditCalls

\* the layer numbers a caller passes: an index of /OCGs, or the object number
\* of a group
LayerNumbers(doc) == 0..(Len(doc.groups) - 1) \cup {doc.groups[1].xref}

NextEdit ==
    \/ \E parentXref \in Parents(layerDoc) : AddOCGWithParent(parentXref)
    \/ \E g \in 1..Len(layerDoc.groups), on \in BOOLEAN :
           SetLayerVisibility(layerDoc.groups[g].xref, on)
    \/ \E layerNumber \in LayerNumbers(layerDoc) : DeleteOCG(layerNumber)

SpecEdit == InitEdit /\ [][NextEdit]_vars

InitAddOCG == LayerOthersIdle /\ InitAdd /\ InitEditCalls

NextAddOCG ==
    \/ \E parentXref \in Parents(layerDoc) : AddOCGWithParent(parentXref)
    \/ GetLayerConfigCall
    \/ ParseStep
    \/ GetLayerConfigReturn

SpecAddOCG == InitAddOCG /\ [][NextAddOCG]_vars


\* documents for deleteOCG under a caller that reads the layer configuration
\* before and after: any ordering of the groups 5, 15, 7
InitOrdered ==
    \E style \in Styles, config \in {c \in Configs : c.d # "absent"} :
        \E tokens \in TokenSeqs({Ref(DistinctGroups[g].xref) : g \in 1..MaxGroups}) :
            /\ layerDoc = Doc(DistinctGroups, LayersOf(DistinctGroups), tokens, style,
                              Absent, Absent, "add")
            /\ ocProps = OcPropsWith(config, layerDoc, Present(tokens))

InitDeleteOCG == LayerOthersIdle /\ InitOrdered /\ InitEditCalls

\* the caller deletes a group once getLayerConfig has returned
NextDeleteOCG ==
    \/ \E layerNumber \in LayerNumbers(layerDoc) : layerCall.pc = "done" /\ DeleteOCG(layerNumber)
    \/ GetLayerConfigCall
    \/ ParseStep
    \/ GetLayerConfigReturn

SpecDeleteOCG == InitDeleteOCG /\ [][NextDeleteOCG]_vars

\* A document that gives out page handles and is closed.
NextPageHandles ==
    \/ \E index \in Idx : GetPageHandle(index) /\ UNCHANGED framePages
    \/ PagesCall /\ UNCHANGED frameDoc
    \/ PagesNextHandle /\ UNCHANGED framePages
    \/ \E index \in Idx : InsertBlankPageHandle(index) /\ UNCHANGED framePages
    \/ \E op \in PageOps, pageNumber \in Idx, raises \in BOOLEAN :
           PageOperation(op, pageNumber, raises) /\ UNCHANGED framePages
    \/ \E raises \in BOOLEAN : Close(raises) /\ UNCHANGED frameDoc

SpecPageHandles == InitDocSpec /\ [][NextPageHandles]_vars

\* the PDFs given to split, renderPage and extractText: pages 1..n
SourcePdfs == {[p \in 1..n |-> p] : n \in 1..MaxPages}

\* a page index as a caller may pass it: negative, the first pages, the last
\* page of the longest PDF, and one past it
RangeEnds == {-1, 0, 1, MaxPages - 1, MaxPages}

\* { start, end } of a range as a caller may pass it
RangeSeqs ==
    UNION {[1..k -> [start : RangeEnds, end : RangeEnds]] : k \in 0..MaxRanges}

NextJobs ==
    \/ \E n \in 0..MaxPdfs : MergeCall(n) /\ UNCHANGED frameJob
    \/ \E raises \in BOOLEAN : MergeOpenFirst(raises) /\ UNCHANGED frameJob
    \/ \E openRaises \in BOOLEAN, insertRaises \in BOOLEAN, closeRaises \in BOOLEAN :
           MergeTurn(openRaises, insertRaises, closeRaises) /\ UNCHANGED frameJob
    \/ \E saveRaises \in BOOLEAN, closeRaises \in BOOLEAN :
           MergeFinish(saveRaises, closeRaises) /\ UNCHANGED frameJob
    \/ /\ job.pc = "idle"
       /\ \E source \in SourcePdfs, ranges \in RangeSeqs :
              SplitCall(source, ranges) /\ UNCHANGED frameJob
    \/ \E raises \in BOOLEAN : SplitOpen(raises) /\ UNCHANGED frameJob
    \/ \E raises \in {"no", "create", "insert", "save"}, closeRaises \in BOOLEAN :
           SplitTurn(raises, closeRaises) /\ UNCHANGED frameJob
    \/ \E closeRaises \in BOOLEAN : SplitFinish(closeRaises) /\ UNCHANGED frameJob
    \/ \E kind \in {"renderPage", "extractText"}, source \in SourcePdfs, pageIndex \in Idx :
           PageJobCall(kind, source, pageIndex) /\ UNCHANGED frameJob
    \/ \E raises \in BOOLEAN : PageJobOpen(raises) /\ UNCHANGED frameJob
    \/ \E raises \in BOOLEAN, closeRaises \in BOOLEAN :
           RenderPage(raises, closeRaises) /\ UNCHANGED frameJob
    \/ \E raises \in BOOLEAN, closeRaises \in BOOLEAN :
           ExtractText(raises, closeRaises) /\ UNCHANGED frameJob
    \/ JobReturns /\ UNCHANGED frameJob

SpecJobs == InitFsSpec /\ [][NextJobs]_vars

\* every process calls imagesToPdf once
NextImages ==
    \/ \E p \in Procs, n \in 0..MaxImages : ImagesCall(p, n) /\ UNCHANGED frameImages
    \/ \E p \in Procs : ImagesStart(p) /\ UNCHANGED frameImages
    \/ \E p \in Procs : ImagesTurn(p) /\ UNCHANGED frameImages
    \/ \E p \in Procs : ImagesReturns(p) /\ UNCHANGED frameImages

SpecImages == InitFsSpec /\ [][NextImages]_vars

NextDocx ==
    \/ \E pdf \in Pdfs : PdfToDocxCall(pdf) /\ UNCHANGED frameDocx
    \/ \E loads \in BOOLEAN, throws \in BOOLEAN, exitCode \in ExitCodes,
          outputWritten \in BOOLEAN :
           ConvertSettles(loads, throws, exitCode, outputWritten) /\ UNCHANGED frameDocx
    \/ \E raises \in BOOLEAN : PdfToDocxConverts(raises) /\ UNCHANGED frameDocx
    \/ PdfToDocxReturns /\ UNCHANGED frameDocx

SpecDocx == InitFsSpec /\ [][NextDocx]_vars

NextLiteral ==
    \E op \in InterpolatingOps, text \in Strings :
        Interpolate(op, text) /\ UNCHANGED frameLiteral

SpecLiteral == InitFsSpec /\ [][NextLiteral]_vars

\* C1: however many facade calls are issued before initialisation has
\* completed, initPyodide is started at most once, every call that resolves
\* receives the one instance, and a later call returns it without starting
\* initPyodide again.
C1_InitOnce ==
    /\ Len(initPromises) <= 1
    /\ Cardinality(delivered) <= 1
    /\ \A c \in Callers : callPc[c] = "resolved" => callResult[c] = 1
    /\ pyodide \in {0, 1}

\* Three calls were issued before the initialisation completed, all resolved,
\* and one caller called again afterwards.
C1_Witness ==
    /\ \A c \in Callers : joinedSettled[c] = "pending" \/ callsMade[c] = 2
    /\ \E c \in Callers : callsMade[c] = 2 /\ callPc[c] = "resolved" /\ joinedSettled[c] = "none"
    /\ Cardinality({c \in Callers : callPc[c] = "resolved"}) = NumCallers
    /\ delivered = {1}

\* C2: a call that begins after the initialisation has failed starts a fresh
\* attempt; it is not handed the earlier failure.
C2_RetryAfterFailure ==
    \A c \in Callers : callPc[c] # "idle" => joinedSettled[c] # "rejected"

\* The methods of the handle that C3 lists (close excluded).
HandleMethods == SimpleOps \cup {"getPage", "pages", "deletePage", "deletePages",
                                 "insertBlankPage", "movePage", "copyPage", "selectPages",
                                 "insertPdf", "searchText"}

\* C3: once close() has been invoked, every call of an accessor or mutator
\* of the handle fails with 'Document has been closed', before any
\* interpreter invocation.
C3_ClosedFailsEveryCall ==
    (lastOp.closedAtCall /\ lastOp.op \in HandleMethods)
        => (lastOp.outcome = "closedError" /\ lastOp.interp = 0)

\* C4: over any number of close() calls the interpreter-side close and the
\* deletion of the input file are each attempted at most once, no close()
\* throws, and the handle is closed after the first call even when the
\* interpreter-side close raised.
C4_CloseIdempotent ==
    /\ closeAttempts <= 1
    /\ unlinkAttempts <= 1
    /\ (closeCalls >= 1 => closed)
    /\ (lastOp.op = "close" => lastOp.outcome = "ok")

\* close() was called again on a handle whose interpreter-side close raised.
C4_Witness ==
    /\ closeCalls >= 2
    /\ closeAttempts = 1
    /\ unlinkAttempts = 0
    /\ lastOp.op = "close"
    /\ closed

\* C5: every page index an operation hands to the engine lies within
\* 0..pageCount-1 for the page count at the time of the call.
C5_IndexCheckedBeforeEngine ==
    \A j \in 1..Len(lastOp.engineIdx) :
        ValidIndex(lastOp.engineIdx[j].idx, lastOp.engineIdx[j].n)

\* The pages of `pages` whose 0-based position is not in S, in their order.
Kept(pages, S) ==
    LET K == {p \in 1..Len(pages) : (p - 1) \notin S}
    IN  [j \in 1..Cardinality(K) |->
            pages[CHOOSE p \in K : Cardinality({q \in K : q <= p}) = j]]

Distinct(s) == \A j, k \in 1..Len(s) : j # k => s[j] # s[k]

\* C6: for a list of distinct valid indices, deletePages issues one
\* single-page deletion per element, in descending index order, leaves the
\* caller's array as it was, and the document is the original one with
\* exactly the pages at those original indices removed.
C6_DeletePagesDescending ==
    (/\ lastOp.op = "deletePages"
     /\ ~lastOp.closedAtCall
     /\ Distinct(lastOp.arg)
     /\ \A j \in 1..Len(lastOp.arg) : ValidIndex(lastOp.arg[j], Len(lastOp.pagesBefore)))
    => /\ lastOp.outcome = "ok"
       /\ Len(lastOp.engineIdx) = Len(lastOp.arg)
       /\ \A j, k \in 1..Len(lastOp.engineIdx) :
              j < k => lastOp.engineIdx[j].idx > lastOp.engineIdx[k].idx
       /\ {lastOp.engineIdx[j].idx : j \in 1..Len(lastOp.engineIdx)}
              = {lastOp.arg[j] : j \in 1..Len(lastOp.arg)}
       /\ lastOp.argAfter = lastOp.arg
       /\ docPages = Kept(lastOp.pagesBefore, {lastOp.arg[j] : j \in 1..Len(lastOp.arg)})

\* deletePages([1, 0, 2]) ran on a document of more pages than it deleted.
C6_Witness ==
    /\ lastOp.op = "deletePages"
    /\ lastOp.outcome = "ok"
    /\ Len(lastOp.arg) >= 2
    /\ lastOp.arg[1] < lastOp.arg[2]
    /\ Distinct(lastOp.arg)
    /\ docPages # << >>
    /\ Len(docPages) = Len(lastOp.pagesBefore) - Len(lastOp.arg)

\* The methods C7 lists.
C7Kinds == TempKinds \cup {"imagesToPdf", "pdfToDocx", "open"}

\* C7: once a call of a facade method that writes a temporary entry has
\* settled, resolved or rejected, no entry it wrote remains.
C7_NoEntryLeftBehind ==
    \A p \in Procs :
        (calls[p].pc \in {"resolved", "rejected"} /\ calls[p].kind \in C7Kinds)
            => calls[p].left = {}

\* C8: no two calls ever write or delete the same entry name.
C8_NamesUniquePerCall ==
    \A u1, u2 \in used : u1.name = u2.name => u1.call = u2.call

\* C9: in save({encryption}), the permission value handed to the engine has
\* bit 4, 8, 16, 32 set exactly when print, modify, copy, annotate
\* respectively is not explicitly false, and no other bit; each bit follows
\* its own flag only; with every flag (or the permissions object) omitted
\* the value is 60; with no encryption option no encryption parameter is
\* emitted.
C9_PermissionBits ==
    saveCall.ran =>
        LET enc == saveCall.options.encryption
            out == saveCall.tobytes.encryption
            NotFalse(flag) == ~(enc.hasPermissions /\ enc.permissions[flag] = "false")
            Bit(v) == (out.permissions \div v) % 2 = 1
        IN  IF enc.present
            THEN /\ out.present
                 /\ Bit(4) <=> NotFalse("print")
                 /\ Bit(8) <=> NotFalse("modify")
                 /\ Bit(16) <=> NotFalse("copy")
                 /\ Bit(32) <=> NotFalse("annotate")
                 /\ out.permissions % 4 = 0
                 /\ out.permissions < 64
                 /\ (\A flag \in {"print", "modify", "copy", "annotate"} :
                        enc.hasPermissions => enc.permissions[flag] = "omitted")
                        => out.permissions = 60
            ELSE out = NoEncryptParams

\* save() ran with print and annotate false, modify omitted and copy true:
\* the engine was handed 8 | 16.
C9_Witness ==
    /\ saveCall.ran
    /\ saveCall.options.encryption.present
    /\ saveCall.options.encryption.hasPermissions
    /\ saveCall.options.encryption.permissions.print = "false"
    /\ saveCall.options.encryption.permissions.modify = "omitted"
    /\ saveCall.options.encryption.permissions.copy = "true"
    /\ saveCall.options.encryption.permissions.annotate = "false"
    /\ saveCall.tobytes.encryption.permissions = 24

\* The integer nearest n / d for d > 0, a tie going to the larger one.
RoundRatio(n, d) == (2 * n + d) \div (2 * d)

\* C10: a resolved compressPdf reports originalSize as the byte length of
\* the input, measured before anything is written or run; savings =
\* originalSize - compressedSize; savingsPercent = round((originalSize -
\* compressedSize) / originalSize * 1000) / 10, and 0 when originalSize is
\* 0; pageCount = the page count of the input; hence savings +
\* compressedSize = originalSize.
C10_CompressResult ==
    compressCall.pc = "resolved" =>
        LET r == compressCall.result
        IN  /\ r.originalSize = compressCall.input.size
            /\ compressCall.log[1] = "byteLength"
            /\ r.savings = r.originalSize - r.compressedSize
            /\ r.savings + r.compressedSize = r.originalSize
            /\ r.pageCount = compressCall.input.pages
            /\ r.savingsPercent =
                   IF r.originalSize = 0 THEN Zero
                   ELSE FlDiv(RoundRatio(1000 * (r.originalSize - r.compressedSize),
                                         r.originalSize), 10)

(***************************************************************************)
(* Claims about the optional-content groups.                               *)
(***************************************************************************)
LayerDone == layerCall.pc = "done"

\* the descriptor getLayerConfig returned for the group of object number x
DescriptorOf(x) ==
    layerCall.result[CHOOSE r \in 1..Len(layerCall.result) : layerCall.result[r].xref = x]

RefPositions(tokens) == {p \in 1..Len(tokens) : IsRefTok(tokens[p])}

\* the "[" that opens the sub-sequence position p lies in
Enclosing(tokens, p) ==
    LET opens == {q \in 1..(p - 1) :
                     tokens[q] = OpenTok /\ Level(tokens, q) = Level(tokens, p) - 1}
    IN  CHOOSE q \in opens : \A k \in opens : k <= q

\* the references before position q in the sequence position q lies in
RefsBefore(tokens, q) ==
    {r \in 1..(q - 1) :
        /\ IsRefTok(tokens[r])
        /\ \A k \in r..q : Level(tokens, k) >= Level(tokens, q)
        /\ Level(tokens, r) = Level(tokens, q)}

\* C11: for a well-formed ordering array in which every reference is a known
\* group appearing once, each group's depth is the number of bracketed
\* sub-sequences enclosing it inside the outermost array, its parentXref is
\* the reference token immediately preceding its enclosing sub-sequence at
\* the enclosing level (0 at the root, 0 when no reference precedes the
\* sub-sequence), and its displayOrder is its rank 0, 1, 2, ... among the
\* references from left to right.
C11_OrderingTree ==
    (LayerDone /\ layerDoc.family = "tree" /\ ocProps.d # "absent") =>
        \A p \in RefPositions(layerDoc.tokens) :
            LET tokens == layerDoc.tokens
                d == DescriptorOf(RefNum(tokens[p], 1))
                q == Enclosing(tokens, p)
            IN  /\ d.depth = Level(tokens, p)
                /\ d.displayOrder = Cardinality({r \in RefPositions(tokens) : r < p})
                /\ Level(tokens, p) = 0 => d.parentXref = 0
                /\ (Level(tokens, p) > 0 /\ q > 1 /\ IsRefTok(tokens[q - 1]))
                       => d.parentXref = RefNum(tokens[q - 1], 1)
                /\ (Level(tokens, p) > 0 /\ RefsBefore(tokens, q) = {})
                       => d.parentXref = 0

\* "A [B]" has been read: A at the root, B one level down under A and after A
C11_Witness ==
    /\ LayerDone /\ layerDoc.family = "tree" /\ ocProps.d # "absent"
    /\ layerDoc.tokens = <<Ref(GroupXrefs[1]), OpenTok, Ref(GroupXrefs[2]), CloseTok>>
    /\ DescriptorOf(GroupXrefs[1]).depth = 0
    /\ DescriptorOf(GroupXrefs[1]).parentXref = 0
    /\ DescriptorOf(GroupXrefs[2]).depth = 1
    /\ DescriptorOf(GroupXrefs[2]).parentXref = GroupXrefs[1]
    /\ DescriptorOf(GroupXrefs[2]).displayOrder > DescriptorOf(GroupXrefs[1]).displayOrder

\* the text getLayerConfig takes as the ordering array
OrderText == ocProps.arr["Order"]

\* the descriptors of a returned list are those of layer_ui_configs(), one each
OnePerLayer(result, layers) ==
    /\ Len(result) = Len(layers)
    /\ \A p \in 1..Len(layers) :
           Cardinality({r \in 1..Len(result) :
               result[r].number = layers[p].number /\ result[r].text = layers[p].text}) = 1

Untouched(d) == d.depth = 0 /\ d.parentXref = 0 /\ d.displayOrder = 0

\* what is left to scan: twice the characters not yet passed by the
\* activations of parse_order_array, plus the number of activations
RECURSIVE Remaining(_)
Remaining(stack) ==
    IF stack = <<>> THEN 0
    ELSE 2 * (Len(stack[1].order_val) + 1 - stack[1].i) + 1 + Remaining(Tail(stack))

\* the reference of object number x stands in the text as a token
Occurs(text, x) ==
    \E k \in 1..Len(text) :
        /\ startswith(From(text, k), Ref(x))
        /\ k = 1 \/ ~IsDigit(text[k - 1])

\* the scanner can have reached the descriptor d: a reference paired with it
\* stands in the text
Reachable(call, d) ==
    /\ ~call.caught
    /\ \E p \in 1..Len(call.xref_to_num) :
           /\ call.xref_to_num[p][2] = d.number
           /\ Occurs(OrderText, call.xref_to_num[p][1])

\* what a returned call has to show
Returned(call) ==
    /\ OnePerLayer(call.result, layerDoc.layers)
    /\ \A r \in 1..Len(call.result) :
           ~Reachable(call, call.result[r]) => Untouched(call.result[r])

OrderedXrefs == [k \in 1..Cardinality(RefPositions(layerDoc.tokens)) |->
    RefNum(layerDoc.tokens[CHOOSE p \in RefPositions(layerDoc.tokens) :
        Cardinality({r \in RefPositions(layerDoc.tokens) : r < p}) = k - 1], 1)]

InOrdering(x) == \E k \in 1..Len(OrderedXrefs) : OrderedXrefs[k] = x

\* C17: in the list getLayerConfig returns, every group absent from the
\* ordering array precedes every group that occurs in it, and the groups that
\* occur in it appear in the order of a depth-first walk of the tree.
C17_AbsentGroupsFirst ==
    (LayerDone /\ layerDoc.family = "tree" /\ ocProps.d # "absent") =>
        LET result == layerCall.result
        IN  /\ \A a, b \in 1..Len(result) :
                   (~InOrdering(result[a].xref) /\ InOrdering(result[b].xref)) => a < b
            /\ \A a, b \in 1..Len(result) :
                   (\E k, m \in 1..Len(OrderedXrefs) :
                        k < m /\ OrderedXrefs[k] = result[a].xref
                              /\ OrderedXrefs[m] = result[b].xref) => a < b

\* the first reference of /OCGs whose group carries the name
FirstWithName(name) ==
    LET at == {g \in 1..Len(layerDoc.groups) : StripParens(layerDoc.groups[g].name) = name}
    IN  layerDoc.groups[CHOOSE g \in at : \A h \in at : g <= h].xref

\* C18: when several groups share a name, the first match wins: the
\* descriptor of that name is paired with the first reference of the raw OCGs
\* array that carries the name, and later references or descriptors of the
\* same name do not replace that pairing.
C18_FirstNameWins ==
    (LayerDone /\ layerDoc.family = "names") =>
        \A p \in 1..Len(layerDoc.layers) :
            \E r \in 1..Len(layerCall.result) :
                /\ layerCall.result[r].text = layerDoc.layers[p].text
                /\ layerCall.result[r].xref = FirstWithName(layerDoc.layers[p].text)

(***************************************************************************)
(* Claims about the edits of the optional-content arrays.                  *)
(***************************************************************************)
AddReturned == ocCall.op = "addOCGWithParent" /\ ocCall.outcome = "returned"

\* the reference of object number x stands at position k of the text as a
\* token
OccursAt(text, k, x) ==
    /\ startswith(From(text, k), Ref(x))
    /\ k = 1 \/ ~IsDigit(text[k - 1])

\* ... directly inside the outermost bracket
OccursAtRoot(text, x) ==
    \E k \in 1..Len(text) : OccursAt(text, k, x) /\ DepthAt(text, k) = 1

\* getLayerConfig has returned what it read from the document as it is now
ReadBack == LayerDone /\ layerCall.seen = ocProps

\* every reference of the text is one to a group of the document
NoDanglingReference(text) == ~Occurs(text, DanglingXref)

\* C12: after addOCGWithParent(name, parentXref) on a document whose ordering
\* array contains the parent's reference (among references to other groups,
\* at any nesting), the ordering array written back, re-parsed by
\* getLayerConfig, shows the new group one level below the parent with
\* parentXref the given parent, and the new group's reference is no longer
\* at the root level.
C12_ChildUnderParent ==
    (/\ AddReturned /\ ReadBack
     /\ NoDanglingReference(ocCall.created.arr["Order"])
     /\ Occurs(ocCall.created.arr["Order"], ocCall.arg.parentXref)) =>
        LET child == DescriptorOf(ocCall.result)
            parent == DescriptorOf(ocCall.arg.parentXref)
        IN  /\ child.parentXref = ocCall.arg.parentXref
            /\ child.depth = parent.depth + 1
            /\ ~OccursAtRoot(OrderText, ocCall.result)

AddCalled == ocCall.op = "addOCGWithParent"

\* C13: when the parent's reference cannot be found in the ordering array,
\* addOCGWithParent skips the write: the ordering array stays exactly as
\* add_ocg left it, the new group's reference remains at its root level, no
\* error is raised and the new group's object number is returned.
C13_ParentNotFound ==
    (/\ AddCalled
     /\ NoDanglingReference(ocCall.created.arr["Order"])
     /\ ~contains(ocCall.created.arr["Order"], Ref(ocCall.arg.parentXref))) =>
        /\ ocCall.outcome = "returned"
        /\ ocCall.result \in NewXrefs([layerDoc EXCEPT !.groups = SubSeq(@, 1, Len(@) - 1)])
        /\ OrderText = ocCall.created.arr["Order"]
        /\ OccursAtRoot(OrderText, ocCall.result)

DeleteReturned == ocCall.op = "deleteOCG" /\ ocCall.outcome = "returned"

\* a reference to object number x, generation 0, stands in the text
RefersTo(text, x) ==
    \E k \in 1..Len(text) :
        /\ k = 1 \/ ~IsDigit(text[k - 1])
        /\ RefEnd(text, k, FALSE) # 0
        /\ RefNum(text, k) = x

\* C14: after deleteOCG(n) has completed, the deleted group's reference is in
\* none of /OCGs, /ON, /OFF and /Order, whichever of them held it before and
\* whether /OCProperties and /D are inline or referenced.
C14_DeletedEverywhere ==
    DeleteReturned =>
        \A key \in ArrayKeys : ~RefersTo(ocProps.arr[key], ocCall.result)

\* group 5 was in all four arrays of a document whose /OCProperties and /D
\* are objects of their own, and was deleted by its index
C14_Witness ==
    /\ DeleteReturned
    /\ ocCall.arg.layerNumber = 0
    /\ ocCall.result = GroupXrefs[1]
    /\ ocCall.before.ocp = "indirect" /\ ocCall.before.d = "indirect"
    /\ \A key \in ArrayKeys : RefersTo(ocCall.before.arr[key], GroupXrefs[1])
    /\ \A key \in ArrayKeys : ocProps.arr[key] # ocCall.before.arr[key]

VisibilityReturned == ocCall.op = "setLayerVisibility" /\ ocCall.outcome = "returned"

\* C15: after setLayerVisibility(x, on) has completed on a document whose /D
\* is found, the reference of x is in /ON and not in /OFF when on is true,
\* and in /OFF and not in /ON when on is false, whatever the two arrays held
\* before.
C15_VisibilityMembership ==
    VisibilityReturned =>
        LET x == ocCall.arg.ocgXref
            member == IF ocCall.arg.on THEN "ON" ELSE "OFF"
            other == IF ocCall.arg.on THEN "OFF" ELSE "ON"
        IN  /\ RefersTo(ocProps.arr[member], x)
            /\ ~RefersTo(ocProps.arr[other], x)

\* modify_pdf_order has run: the call had an ordering text to edit
OrderEdited == AddCalled /\ ocCall.writes # <<>>

\* the reference of x stands at position k of the text as a whole token: no
\* digit before it, and the end of the text, a space or a bracket after it
WholeTokenAt(text, k, x) ==
    /\ OccursAt(text, k, x)
    /\ \/ k + Len(Ref(x)) = Len(text) + 1
       \/ text[k + Len(Ref(x))] \in {" ", "[", "]"}

\* the text without the first whole token x at bracket depth 1 and without
\* the whitespace that follows it
WithoutFirstRootToken(text, x) ==
    LET at == {k \in 1..Len(text) : WholeTokenAt(text, k, x) /\ DepthAt(text, k) = 1}
        first == CHOOSE k \in at : \A m \in at : k <= m
    IN  IF at = {} THEN text
        ELSE Slice(text, 1, first) \o From(text, Span(text, first + Len(Ref(x)), SpaceChars))

\* C19: step 1 of the add-child edit removes exactly one thing from the
\* ordering text: the first occurrence, at bracket depth 1, of the child's
\* reference as a whole token, with the whitespace after it; every other
\* reference (one whose number ends with the child's digits included) is
\* left as it is.
C19_StepOneRemovesChildOnly ==
    OrderEdited =>
        ocCall.cleaned = WithoutFirstRootToken(ocCall.created.arr["Order"], ocCall.result)

EditCalled == ocCall.op # "none"

\* the call read the place (object number, key path) before
WasRead(call, w) ==
    \E r \in 1..Len(call.reads) :
        call.reads[r].xref = w.xref /\ call.reads[r].path = w.path

\* C20: in addOCGWithParent, setLayerVisibility and deleteOCG, for every
\* placement of /OCProperties and /D (inline, referenced, absent), each array
\* written is written to exactly the (object number, key path) it was read
\* from, that place is one of the four arrays, and a call that resolved no
\* place issues no write.
C20_WrittenWhereRead ==
    EditCalled =>
        /\ \A w \in 1..Len(ocCall.writes) :
               /\ WasRead(ocCall, ocCall.writes[w])
               /\ Target(ocCall.created, ocCall.writes[w].xref, ocCall.writes[w].path)
                      \in ArrayKeys
        /\ (ocCall.op # "addOCGWithParent" /\ ocCall.outcome = "raised")
               => ocCall.writes = <<>> /\ ocProps = ocCall.before

\* /Order of a /D that is an object of its own was read from that object
\* and written back to it
C20_Witness ==
    /\ AddCalled /\ ocCall.outcome = "returned"
    /\ ocCall.created.ocp = "indirect" /\ ocCall.created.d = "indirect"
    /\ Len(ocCall.writes) = 1
    /\ ocCall.writes[1].xref = DXref /\ ocCall.writes[1].path = <<"Order">>
    /\ ocCall.reads[Len(ocCall.reads)] = Read(DXref, <<"Order">>)
    /\ OrderText # ocCall.created.arr["Order"]

\* where str.find meets the parent's reference in the text step 2 starts from
ParentAt == find(ocCall.cleaned, Ref(ocCall.arg.parentXref))

\* the parent's reference is a whole token there: it is met in no earlier
\* token
ParentIsToken ==
    /\ ParentAt # 0
    /\ WholeTokenAt(ocCall.cleaned, ParentAt, ocCall.arg.parentXref)

\* the first position after the parent's token that holds no whitespace, 0
\* when the text ends before one
AfterParent ==
    LET end == ParentAt + Len(Ref(ocCall.arg.parentXref))
        later == {n \in end..Len(ocCall.cleaned) : ~IsSpace(ocCall.cleaned[n])}
    IN  IF later = {} THEN 0 ELSE CHOOSE n \in later : \A m \in later : n <= m

\* the "]" that closes the "[" at position n of a text: the first one after it
\* that stands at the depth the "[" opened
ClosingOf(text, n) ==
    LET closes == {m \in (n + 1)..Len(text) :
                       text[m] = "]" /\ DepthAt(text, m) = DepthAt(text, n) + 1}
    IN  CHOOSE m \in closes : \A k \in closes : m <= k

\* what step 2 is to make of the text
UnderParent ==
    LET text == ocCall.cleaned
        child == Ref(ocCall.result)
        end == ParentAt + Len(Ref(ocCall.arg.parentXref))
    IN  IF AfterParent # 0 /\ text[AfterParent] = "["
        THEN SubSeq(text, 1, ClosingOf(text, AfterParent) - 1) \o <<" ">> \o child
             \o SubSeq(text, ClosingOf(text, AfterParent), Len(text))
        ELSE SubSeq(text, 1, end - 1) \o <<" ", "[">> \o child \o <<"]">>
             \o SubSeq(text, end, Len(text))

\* the references of a list other than the one to object x
Others(refs, x) == SelectSeq(refs, LAMBDA r : r # x)

\* C22: step 2 of the add-child edit, when the parent's reference is met in
\* the cleaned text as a whole token and in no earlier token: when the first
\* character after the parent's token that is no whitespace is "[", the
\* child's reference is put right before the "]" closing that "[" (nested
\* arrays inside it are passed over); otherwise a new array holding the child
\* is put right after the parent's token. Either way the brackets stay
\* balanced and all other references keep their order.
C22_StepTwoInsertsUnderParent ==
    (OrderEdited /\ ParentIsToken) =>
        LET final == ocCall.writes[1].value
        IN  /\ final = UnderParent
            /\ DepthAt(final, Len(final) + 1) = DepthAt(ocCall.cleaned, Len(ocCall.cleaned) + 1)
            /\ \A k \in 1..Len(final) : final[k] = "]" => DepthAt(final, k) > 0
            /\ Others(findall(final, 1), ocCall.result)
               = Others(findall(ocCall.cleaned, 1), ocCall.result)
            /\ Cardinality({k \in 1..Len(final) : OccursAt(final, k, ocCall.result)})
               = 1 + Cardinality({k \in 1..Len(ocCall.cleaned) :
                                      OccursAt(ocCall.cleaned, k, ocCall.result)})

\* the child was put into an array under the parent that holds an array itself
C22_Witness_InsideNestedArray ==
    /\ OrderEdited /\ ParentIsToken
    /\ AfterParent # 0 /\ ocCall.cleaned[AfterParent] = "["
    /\ \E k \in (AfterParent + 1)..(ClosingOf(ocCall.cleaned, AfterParent) - 1) :
           ocCall.cleaned[k] = "]"
    /\ ocCall.writes[1].value = UnderParent
    /\ ocCall.outcome = "returned"

\* the group a completed deleteOCG or setLayerVisibility was aimed at
EditTarget == IF ocCall.op = "deleteOCG" THEN ocCall.result ELSE ocCall.arg.ocgXref

\* the brackets of a text, in order
Brackets(text) == SelectSeq(text, LAMBDA c : c \in {"[", "]"})

\* C26: deleteOCG(n) and setLayerVisibility(x, on) alter no reference but
\* their target's: the reference of every other group that stands in /OCGs,
\* /ON, /OFF or /Order before the call stands there with the same number
\* after it (groups whose number ends with the target's digits included), and
\* the brackets of /Order are as before.
C26_OtherReferencesKept ==
    (DeleteReturned \/ VisibilityReturned) =>
        /\ \A key \in ArrayKeys, g \in 1..Len(layerDoc.groups) :
               (/\ layerDoc.groups[g].xref # EditTarget
                /\ RefersTo(ocCall.before.arr[key], layerDoc.groups[g].xref)) =>
                   RefersTo(ocProps.arr[key], layerDoc.groups[g].xref)
        /\ Brackets(ocProps.arr["Order"]) = Brackets(ocCall.before.arr["Order"])

\* the descriptor of the group of object number x in a list of descriptors
Among(descriptors, x) ==
    descriptors[CHOOSE r \in 1..Len(descriptors) : descriptors[r].xref = x]

\* the groups /OCGs lists after the call
Surviving ==
    {layerDoc.groups[g].xref : g \in 1..Len(layerDoc.groups)} \ {ocCall.result}

\* getLayerConfig returned before the deletion and again after it
DeletedBetweenReads == DeleteReturned /\ ocCall.known # <<>> /\ ReadBack

\* C27: deleteOCG moves no surviving group under another parent: the
\* parentXref getLayerConfig reports for it after group t is deleted is the
\* one reported before, or 0 when its parent was t. The children of a deleted
\* parent are not attached to the reference that stood before the parent in
\* the ordering.
C27_ParentsKept ==
    (DeletedBetweenReads /\ \A x \in Surviving : RefersTo(ocProps.arr["OCGs"], x)) =>
        \A x \in Surviving :
            LET was == Among(ocCall.known, x).parentXref
                is == Among(layerCall.result, x).parentXref
            IN  is = IF was = ocCall.result THEN 0 ELSE was

\* C28: for every list of valid page indices, repeated ones included,
\* deletePages removes exactly the original pages whose index is in the list:
\* a repeated index removes its page once and no page whose index is not in
\* the list is removed.
C28_DeletePagesRepeated ==
    (/\ lastOp.op = "deletePages"
     /\ ~lastOp.closedAtCall
     /\ \A j \in 1..Len(lastOp.arg) :
            lastOp.arg[j] \in 0..(Len(lastOp.pagesBefore) - 1)) =>
        docPages = Kept(lastOp.pagesBefore, {lastOp.arg[j] : j \in 1..Len(lastOp.arg)})

PageOperated == lastOp.op \in PageOps

\* C24: once close() has been called on a document, no operation on a page
\* handle got from it before (by getPage, pages() or insertBlankPage) reaches
\* the interpreter: each fails with the document-closed condition and runs
\* no code against the closed document variable.
C24_PageHandlesCheckClosed ==
    (PageOperated /\ lastOp.closedAtCall) =>
        /\ lastOp.interp = 0
        /\ lastOp.outcome = "closedError"

JobSettled == job.pc \in {"resolved", "rejected"}

\* C23: when a call of merge, split, renderPage or extractText (and the
\* operations of its shape) settles, on whatever path, every handle it opened
\* has been closed and the input file of each is deleted: also when a later
\* open fails in merge, when renderPage is given a page index out of range,
\* and when a step of the interpreter raises midway.
C23_HandlesClosedAtSettle ==
    JobSettled =>
        /\ job.open = {}
        /\ job.files \cap job.opened = {}

SplitResolved == job.kind = "split" /\ job.pc = "resolved"

\* a range cut to the pages a document of n pages has
ClampedTo(n, range) ==
    [start |-> IF range.start > 0 THEN range.start ELSE 0,
     end |-> IF range.end < n - 1 THEN range.end ELSE n - 1]

\* the ranges that hold a page once they are cut, in their order
NonEmptyRanges(n, ranges) ==
    SelectSeq([k \in 1..Len(ranges) |-> ClampedTo(n, ranges[k])],
              LAMBDA r : r.start <= r.end)

\* C29: split(pdf, ranges) cuts each range to [max(0, start),
\* min(pageCount - 1, end)], makes no output for a range that is empty once
\* cut and returns the other outputs in the order of their ranges: there are
\* as many outputs as ranges that are not empty once cut. The page count of
\* the source is read once, before the loop, and the loop does not change it.
C29_SplitClampsRanges ==
    SplitResolved =>
        LET kept == NonEmptyRanges(Len(job.source), job.ranges)
        IN  /\ Len(job.results) = Len(kept)
            /\ \A k \in 1..Len(kept) :
                   job.results[k] = [p \in 1..(kept[k].end - kept[k].start + 1) |->
                                         job.source[kept[k].start + p]]
            /\ job.counted = 1
            /\ job.pageCount = Len(job.source)

\* a split returned one output for two ranges: one range reached beyond both
\* ends of the document, the other was empty
C29_Witness_ClampedAndSkipped ==
    /\ SplitResolved
    /\ Len(job.source) >= 2
    /\ Len(job.ranges) = 2
    /\ job.ranges[1].start > job.ranges[1].end
    /\ job.ranges[2].start < 0 /\ job.ranges[2].end >= Len(job.source)
    /\ job.results = <<job.source>>

\* C25: two imagesToPdf calls in flight at once on one facade do not
\* interfere: however their steps interleave at their awaits, each call
\* resolves with a PDF made of its own images in its own order, and no call
\* that was given images fails.
C25_ImagesCallsIsolated ==
    \A p \in Procs :
        /\ imgCalls[p].pc = "resolved" => imgCalls[p].result = imgCalls[p].images
        /\ imgCalls[p].pc = "rejected" => imgCalls[p].images = << >>

\* the colour conversion failed: the engine module did not load, the engine
\* threw, the exit status was not 0 or there is no output file
StepFailed ==
    \/ ~docxCall.step.loads
    \/ docxCall.step.throws
    \/ docxCall.step.exitCode # 0
    \/ ~docxCall.step.outputWritten

StepSettled == docxCall.pc \in {"settledRgb", "resolved", "rejected"}

\* C21: in pdfToDocx every failure of the colour conversion (the engine
\* module fails to load, the engine throws, the exit status is not 0, the
\* output file is missing) is caught and the conversion goes on with the
\* original bytes, so the call never rejects because of that step; when the
\* step succeeds its output is what is converted. The step treats an exit
\* status other than 0 and a missing output file as failures and returns no
\* data then.
C21_ColourStepFailuresCaught ==
    /\ (StepSettled /\ StepFailed) =>
           /\ docxCall.step.settled = "threw"
           /\ docxCall.step.data = << >>
           /\ docxCall.pc # "settledRgb" =>
                  /\ docxCall.ran
                  /\ docxCall.converted = docxCall.pdf
    /\ (StepSettled /\ ~StepFailed) =>
           /\ docxCall.step.settled = "returned"
           /\ docxCall.pc # "settledRgb" => docxCall.converted = Rgb(docxCall.pdf)

\* Ghostscript left an output file and an exit status other than 0, and the
\* conversion went through on the original bytes
C21_Witness_FailedStepOriginalConverted ==
    /\ docxCall.pc = "resolved"
    /\ docxCall.step.exitCode # 0 /\ docxCall.step.outputWritten
    /\ docxCall.step.loads /\ ~docxCall.step.throws
    /\ docxCall.converted = docxCall.pdf

\* C30: for every string of the caller put into generated code (the layer
\* name in addOCG and addOCGWithParent, the text of searchFor, the value of
\* setFormField) the string literal emitted denotes exactly that string: no
\* input, one holding a backslash before a quote included, ends the literal
\* early or adds code after it.
C30_LiteralDenotesInput ==
    literal.op # "none" =>
        /\ literal.read.ok
        /\ literal.read.value = literal.text
        /\ literal.read.end = Len(literal.emitted)

====
